---- MODULE Spec2Model ----
(***************************************************************************)
(* Obelisk RAG middleware: the RAG coordinator (RAGService), the vector    *)
(* storage (VectorStorage over a Milvus collection), the embedding         *)
(* service, the document processor, the provider drivers with their        *)
(* factory and the document watcher toggle, modelled as a state machine.   *)
(*                                                                         *)
(* Four specifications share the variables:                                *)
(*   Spec           the coordinator: query() in its steps (embed, search,  *)
(*                  resolve provider, invoke) and the watcher toggles,     *)
(*                  over a collection that already holds rows;             *)
(*   SpecStore      the storage: add_documents() in its steps (embed +     *)
(*                  build rows, insert, flush), search_with_embedding()    *)
(*                  and direct calls to the embedding service;             *)
(*   SpecDocs       the document processor: process_file() with its        *)
(*                  hand-off to add_documents(), and process_vault();      *)
(*   SpecProviders  the provider factory, health_check() and the           *)
(*                  construction of the coordinator's provider.            *)
(* Calls are made one after another (one call in flight at a time).        *)
(***************************************************************************)
EXTENDS Integers, Sequences, FiniteSets, TLC

\* ------------------------------------------------------------------ bounds
\* embedding_dim of the collection (3072 in the default configuration), scaled
EmbeddingDim == 2
\* retrieve_top_k (5 in the default configuration), scaled
TopK == 2
\* longest batch handed to add_documents
MaxBatch == 2
\* number of identifiers uuid4 hands out in one behaviour
MaxIds == 3
\* number of observers start_watcher creates in one behaviour
MaxObservers == 2

\* ------------------------------------------------------------- value sets
ProviderTypes == {"litellm", "ollama", "openai"}

NoOverride == "None"

\* A text is a sequence of tokens.
Queries == {<<"q1">>, <<"q2">>}

\* Metadata is a set of entries, one per key; t is the Python type of the
\* value, et the type of its elements when it is a list, v its tokens.
MetaSource(f) == [key |-> "source", t |-> "str", et |-> "none", v |-> f]

MetaDate(d) == [key |-> "date", t |-> "date", et |-> "none", v |-> <<d>>]

\* A list of date objects, as yaml.safe_load builds for `dates: [2024-01-01]`.
MetaDates(d) == [key |-> "dates", t |-> "list", et |-> "date", v |-> <<d>>]

Chunk(c, m) == [page_content |-> c, metadata |-> m]

ChunkA == Chunk(<<"c1">>, {MetaSource(<<"a", ".md">>)})

ChunkB == Chunk(<<"c2">>, {MetaSource(<<"b", ".md">>), MetaDate("2024-01-01")})

ChunkC == Chunk(<<"c1">>, {})

ChunkD == Chunk(<<"c2">>, {MetaSource(<<"d", ".md">>), MetaDates("2024-01-01")})

\* The chunks handed to add_documents.
Chunks == {ChunkB, ChunkC, ChunkD}

Batches == UNION {[1..n -> Chunks] : n \in 0..MaxBatch}

\* ------------------------------------------------- the embedding handle
\* Outcomes of one call to the provider's embedding handle: it answers with
\* vectors of the collection's dimension, it raises, or (another embedding
\* model is configured) it answers with vectors of another dimension.
HandleOutcomes == {"ok", "raise", "baddim"}

TextIndex(text) == IF text # <<>> /\ Head(text) \in {"c1", "q1"} THEN 1 ELSE 2

OneHot(i, d) == [j \in 1..d |-> IF j = ((i - 1) % d) + 1 THEN 1 ELSE 0]

HandleVector(text, outcome) ==
    IF outcome = "baddim" THEN OneHot(TextIndex(text), EmbeddingDim + 1)
    ELSE OneHot(TextIndex(text), EmbeddingDim)

\* Mutant of EmbedDocuments: when the handle raises, the vectors of the texts
\* before the last one are handed back.
EmbedDocumentsPartial(texts, outcome) ==
    IF texts = <<>> THEN [value |-> <<>>, handleCalls |-> 0]
    ELSE IF outcome = "raise"
    THEN [value |-> [i \in 1..(Len(texts) - 1) |-> HandleVector(texts[i], "ok")],
          handleCalls |-> 1]
    ELSE [value |-> [i \in 1..Len(texts) |-> HandleVector(texts[i], outcome)],
          handleCalls |-> 1]

\* EmbeddingService.embed_documents: [] for no texts without calling the
\* handle; [] when the handle raises; else the handle's vectors.
EmbedDocuments(texts, outcome) ==
    IF texts = <<>> THEN [value |-> <<>>, handleCalls |-> 0]
    ELSE IF outcome = "raise" THEN [value |-> <<>>, handleCalls |-> 1]
    ELSE [value |-> [i \in 1..Len(texts) |-> HandleVector(texts[i], outcome)],
          handleCalls |-> 1]

\* Mutant of EmbedQuery: a zero vector of the right length stands in for the
\* embedding that could not be computed.
EmbedQueryZeros(query, outcome) ==
    IF outcome = "raise" THEN [j \in 1..EmbeddingDim |-> 0]
    ELSE HandleVector(query, outcome)

\* EmbeddingService.embed_query: the empty vector when the handle raises.
EmbedQuery(query, outcome) ==
    IF outcome = "raise" THEN <<>> ELSE HandleVector(query, outcome)

\* ------------------------------------------------------ vector storage
\* add_documents, lines 142-148: values of JSON types are kept, any other
\* value is replaced by its string form.
JsonTypes == {"str", "int", "float", "bool", "list", "dict"}

FilterMetadata(metadata) ==
    {[key |-> e.key,
      t   |-> IF e.t \in JsonTypes THEN e.t ELSE "str",
      et  |-> e.et,
      v   |-> e.v] : e \in metadata}

\* filtered_metadata.get("source", "unknown")
DocIdOf(filtered) ==
    IF \E e \in filtered : e.key = "source"
    THEN (CHOOSE e \in filtered : e.key = "source").v
    ELSE <<"unknown">>

\* Mutant of BuildEntities: the identifier is the document's position in the
\* batch.
BuildEntitiesPositionIds(documents, embeddings, firstId) ==
    [ids       |-> [i \in 1..Len(documents) |-> i - 1],
     vectors   |-> embeddings,
     contents  |-> [i \in 1..Len(documents) |-> documents[i].page_content],
     metadatas |-> [i \in 1..Len(documents) |-> FilterMetadata(documents[i].metadata)],
     doc_ids   |-> [i \in 1..Len(documents) |->
                       DocIdOf(FilterMetadata(documents[i].metadata))]]

\* The five columns handed to collection.insert, in schema order.
BuildEntities(documents, embeddings, firstId) ==
    [ids       |-> [i \in 1..Len(documents) |-> firstId + i - 1],
     vectors   |-> embeddings,
     contents  |-> [i \in 1..Len(documents) |-> documents[i].page_content],
     metadatas |-> [i \in 1..Len(documents) |-> FilterMetadata(documents[i].metadata)],
     doc_ids   |-> [i \in 1..Len(documents) |->
                       DocIdOf(FilterMetadata(documents[i].metadata))]]

\* The backend takes a batch only if the columns have one length and every
\* vector has the dimension of the collection's vector field.
InsertAccepts(entities) ==
    /\ Len(entities.vectors) = Len(entities.ids)
    /\ \A i \in 1..Len(entities.vectors) : Len(entities.vectors[i]) = EmbeddingDim

RowsOf(entities) ==
    [i \in 1..Len(entities.ids) |->
        [id       |-> entities.ids[i],
         vector   |-> entities.vectors[i],
         data     |-> entities.contents[i],
         metadata |-> entities.metadatas[i],
         doc_id   |-> entities.doc_ids[i]]]

\* Inner-product similarity, the metric of the index and of the search.
RECURSIVE InnerProduct(_, _)
InnerProduct(u, v) ==
    IF u = <<>> \/ v = <<>> THEN 0
    ELSE Head(u) * Head(v) + InnerProduct(Tail(u), Tail(v))

\* The row of `remaining` most similar to the vector (the earliest on a tie).
BestIndex(coll, vector, remaining) ==
    CHOOSE b \in remaining :
        \A o \in remaining :
            \/ InnerProduct(coll[b].vector, vector) > InnerProduct(coll[o].vector, vector)
            \/ /\ InnerProduct(coll[b].vector, vector) = InnerProduct(coll[o].vector, vector)
               /\ b <= o

\* collection.search(data=[embedding], limit=k): at most `limit` hits, by
\* descending similarity.
RECURSIVE CollectionSearch(_, _, _, _)
CollectionSearch(coll, vector, remaining, limit) ==
    IF limit <= 0 \/ remaining = {} THEN <<>>
    ELSE LET b == BestIndex(coll, vector, remaining)
         IN  <<coll[b]>> \o CollectionSearch(coll, vector, remaining \ {b}, limit - 1)

\* k = None
NoneK == 0

\* Mutant of HitToDocument: the metadata is rebuilt from the doc_id field.
HitToDocumentFromDocId(hit) ==
    Chunk(hit.data, {[key |-> "source", t |-> "str", et |-> "none", v |-> hit.doc_id]})

\* Document(page_content=hit.entity.get("data"), metadata=hit.entity.get("metadata"))
HitToDocument(hit) == Chunk(hit.data, hit.metadata)

\* Mutant of SearchWithEmbedding: only the empty vector is turned away.
SearchWithEmbeddingEmptyOnly(coll, embedding, k, backendOk) ==
    LET limit == IF k = NoneK THEN TopK ELSE k
        hits  == CollectionSearch(coll, embedding, DOMAIN coll, limit)
    IN  IF embedding = <<>> THEN [docs |-> <<>>, searchCalls |-> 0]
        ELSE IF ~backendOk THEN [docs |-> <<>>, searchCalls |-> 1]
        ELSE [docs |-> [i \in 1..Len(hits) |-> HitToDocument(hits[i])],
              searchCalls |-> 1]

\* Mutant of SearchWithEmbedding: the hits are handed back in reverse order.
SearchWithEmbeddingReversed(coll, embedding, k, backendOk) ==
    LET limit == IF k = NoneK THEN TopK ELSE k
        hits  == CollectionSearch(coll, embedding, DOMAIN coll, limit)
    IN  IF Len(embedding) # EmbeddingDim THEN [docs |-> <<>>, searchCalls |-> 0]
        ELSE IF ~backendOk THEN [docs |-> <<>>, searchCalls |-> 1]
        ELSE [docs |-> [i \in 1..Len(hits) |-> HitToDocument(hits[Len(hits) + 1 - i])],
              searchCalls |-> 1]

\* VectorStorage.search_with_embedding: the documents it returns and the
\* number of search calls it made to the backend.
SearchWithEmbedding(coll, embedding, k, backendOk) ==
    LET limit == IF k = NoneK THEN TopK ELSE k
        hits  == CollectionSearch(coll, embedding, DOMAIN coll, limit)
    IN  IF Len(embedding) # EmbeddingDim THEN [docs |-> <<>>, searchCalls |-> 0]
        ELSE IF ~backendOk THEN [docs |-> <<>>, searchCalls |-> 1]
        ELSE [docs |-> [i \in 1..Len(hits) |-> HitToDocument(hits[i])],
              searchCalls |-> 1]

\* ------------------------------------------------------------- the state
VARIABLES
    collection,         \* rows of the Milvus collection, in insertion order
    unflushed,          \* identifiers inserted and not yet flushed
    nextId,             \* identifiers uuid4 has handed out so far
    embedding_service,  \* VectorStorage.embedding_service: 1 configured, 0 None
    apc,                \* add_documents: "idle", "embed", "insert", "flush", "done"
    aDocs,              \* add_documents: the batch
    aEntities,          \* add_documents: the columns built for the insert
    aKeys,              \* add_documents: insert_result.primary_keys
    aResult,            \* add_documents: the list returned
    aTrace,             \* add_documents: calls made, in order
    aOutcome,           \* add_documents: outcome of each call made
    sArgs,              \* search_with_embedding: arguments of the last call
    sResult,            \* search_with_embedding: documents returned
    sCalls,             \* search_with_embedding: backend search calls made
    provider,           \* RAGService.provider: the default provider instance
    llm_model,          \* RAGService.llm_model
    watcher,            \* RAGService.watcher: 0 is None, else the observer held
    observers,          \* every observer start_watcher created, with its state
    wCall,              \* the last watcher toggle and the state it found
    qpc,                \* query: "idle", "embed", "search", "resolve", "invoke",
                        \*        "done" (returned), "raised"
    qArgs,              \* query: query_text, model, provider_type
    query_embedding,    \* query: the vector embed_query returned
    docs,               \* query: the documents search_with_embedding returned
    llm,                \* query: the completion handle resolved for the call
    qCreated,           \* query: providers constructed during the call
    prompt,             \* query: the prompt handed to llm.invoke
    qResult,            \* query: <<>> or the one dictionary returned
    qTrace,             \* query: calls made, in order
    qOutcome,           \* query: outcome of each call made
    eCall,              \* EmbeddingService: the last call made to it directly
    registered,         \* DocumentProcessor: 1 services registered, 0 None
    ppc,                \* process_file: "idle", "handoff" (in add_documents), "done"
    pArgs,              \* process_file: the path and whether the read worked
    pChunks,            \* process_file: the chunks the splitter produced
    pResult,            \* process_file: the list returned
    pHandOffs,          \* process_file: calls made to storage.add_documents
    pBefore,            \* process_file: rows in the collection when it was called
    dpc,                \* process_vault: "idle", "run", "done"
    dQueue,             \* process_vault: files of the glob not yet processed
    dLog,               \* process_vault: per file processed, what process_file did
    dResult,            \* process_vault: the number returned
    sdk,                \* provider types whose client library is installed
    apiKey,             \* whether an OpenAI API key is configured
    config,             \* RAGConfig: the provider settings
    instances,          \* every provider instance constructed, in order
    vCall,              \* the last call made to a provider class or instance
    svc,                \* RAGService.__init__: how the last construction ended
    registry,           \* ProviderFactory._providers: the provider types registered
    server,             \* handle_serve: how far it is, and args.watch
    coordinators,       \* every RAGService built in the server process, in order
    openai_service,     \* api/openai.py _service: 0 is None, else the coordinator
    rpc,                \* request handler: "idle", "query", "forward", "openai", "done"
    request,            \* the request being handled
    forwards,           \* calls of client.request made for the request
    forwarded,          \* what the last client.request call was given
    rResponse,          \* how the request was answered
    threads,            \* per thread: the call it is in and that call's locals
    returned,           \* identifiers add_documents calls have returned so far
    mCall,              \* the last delete_documents or drop_collection call
    dropped,            \* whether the collection has been dropped
    togglers,           \* per calling thread: its place in start/stop_document_watcher
    stopReturned,       \* a stop has returned and no start was under way or came since
    delivery            \* the last event an observer handed to its handler

storeVars == <<collection, unflushed, nextId, embedding_service>>

addVars == <<apc, aDocs, aEntities, aKeys, aResult, aTrace, aOutcome>>

searchVars == <<sArgs, sResult, sCalls>>

coordVars == <<provider, llm_model>>

watchVars == <<watcher, observers, wCall>>

queryVars == <<qpc, qArgs, query_embedding, docs, llm, qCreated, prompt, qResult,
               qTrace, qOutcome>>

embedVars == <<eCall>>

docVars == <<registered, ppc, pArgs, pChunks, pResult, pHandOffs, pBefore,
             dpc, dQueue, dLog, dResult>>

provVars == <<sdk, apiKey, config, instances, vCall, svc, registry>>

serverVars == <<server, coordinators, openai_service, rpc, request, forwards,
                forwarded, rResponse>>

threadVars == <<threads, returned>>

maintVars == <<mCall, dropped>>

toggleVars == <<togglers, stopReturned, delivery>>

procVars == <<serverVars, threadVars, maintVars, toggleVars>>

extVars == <<embedVars, docVars, provVars, procVars>>

vars == <<storeVars, addVars, searchVars, coordVars, watchVars, queryVars, extVars>>

NoEntities == [ids |-> <<>>, vectors |-> <<>>, contents |-> <<>>,
               metadatas |-> <<>>, doc_ids |-> <<>>]

NoOutcome == [embed |-> "none", insert |-> "none", flush |-> "none"]

NoArgs == [embedding |-> <<>>, k |-> NoneK, called |-> FALSE]

NoEmbedCall == [op |-> "none", texts |-> <<>>, outcome |-> "none",
                result |-> <<>>, handleCalls |-> 0]

AddIdle ==
    /\ apc = "idle" /\ aDocs = <<>> /\ aEntities = NoEntities /\ aKeys = <<>>
    /\ aResult = <<>> /\ aTrace = <<>> /\ aOutcome = NoOutcome

SearchIdle == sArgs = NoArgs /\ sResult = <<>> /\ sCalls = 0

\* The values of the call before are gone when the client makes the next call.
ForgetAdd ==
    /\ apc' = "idle" /\ aDocs' = <<>> /\ aEntities' = NoEntities /\ aKeys' = <<>>
    /\ aResult' = <<>> /\ aTrace' = <<>> /\ aOutcome' = NoOutcome

ForgetSearch == sArgs' = NoArgs /\ sResult' = <<>> /\ sCalls' = 0

\* add_documents is entered, lines 115-128: the early returns, else on to the
\* embedding.
AddBegin(documents) ==
    /\ aDocs' = documents
    /\ aEntities' = NoEntities
    /\ aKeys' = <<>>
    /\ aResult' = <<>>
    /\ aTrace' = <<>>
    /\ aOutcome' = NoOutcome
    /\ apc' = IF documents = <<>> \/ embedding_service = 0 THEN "done" ELSE "embed"
    /\ ForgetSearch
    /\ UNCHANGED storeVars

\* add_documents called by a client of the storage.
AddStart(documents) ==
    /\ apc \in {"idle", "done"}
    /\ nextId + Len(documents) <= MaxIds
    /\ AddBegin(documents)
    /\ eCall' = NoEmbedCall
    /\ UNCHANGED <<coordVars, watchVars, queryVars, docVars, provVars, procVars>>

\* add_documents, lines 124-161: one batch embedding call, then an identifier
\* and a row per document.
AddEmbed(outcome) ==
    /\ apc = "embed"
    /\ LET texts == [i \in 1..Len(aDocs) |-> aDocs[i].page_content]
           e     == EmbedDocuments(texts, outcome)
       IN  /\ aEntities' = BuildEntities(aDocs, e.value, nextId)
           /\ aTrace' = IF e.handleCalls = 1 THEN Append(aTrace, "embed") ELSE aTrace
    /\ nextId' = nextId + Len(aDocs)
    /\ aOutcome' = [aOutcome EXCEPT !.embed = outcome]
    /\ apc' = "insert"
    /\ UNCHANGED <<collection, unflushed, embedding_service, aDocs, aKeys, aResult>>
    /\ UNCHANGED <<searchVars, coordVars, watchVars, queryVars>>
    /\ UNCHANGED extVars

\* Mutant of AddInsert: the rows of a batch take the place of the rows stored
\* before for the same doc_id.
AddInsertUpsert(backendOk) ==
    /\ apc = "insert"
    /\ aTrace' = Append(aTrace, "insert")
    /\ IF InsertAccepts(aEntities) /\ backendOk
       THEN /\ collection' =
                  SelectSeq(collection,
                            LAMBDA r : \A i \in 1..Len(aEntities.doc_ids) :
                                           r.doc_id # aEntities.doc_ids[i])
                  \o RowsOf(aEntities)
            /\ unflushed' = unflushed \cup {aEntities.ids[i] : i \in 1..Len(aEntities.ids)}
            /\ aKeys' = aEntities.ids
            /\ aOutcome' = [aOutcome EXCEPT !.insert = "ok"]
            /\ apc' = "flush"
            /\ UNCHANGED aResult
       ELSE /\ aOutcome' = [aOutcome EXCEPT !.insert = "raise"]
            /\ aResult' = <<>>
            /\ apc' = "done"
            /\ UNCHANGED <<collection, unflushed, aKeys>>
    /\ UNCHANGED <<nextId, embedding_service, aDocs, aEntities>>
    /\ UNCHANGED <<searchVars, coordVars, watchVars, queryVars>>
    /\ UNCHANGED extVars

\* Mutant of AddInsert: vectors longer than the dimension of the collection
\* are cut to it before the insert.
AddInsertTruncating(backendOk) ==
    /\ apc = "insert"
    /\ aTrace' = Append(aTrace, "insert")
    /\ LET cut == [aEntities EXCEPT !.vectors =
                      [i \in 1..Len(aEntities.vectors) |->
                          IF Len(aEntities.vectors[i]) > EmbeddingDim
                          THEN SubSeq(aEntities.vectors[i], 1, EmbeddingDim)
                          ELSE aEntities.vectors[i]]]
       IN  IF InsertAccepts(cut) /\ backendOk
           THEN /\ collection' = collection \o RowsOf(cut)
                /\ unflushed' = unflushed \cup {cut.ids[i] : i \in 1..Len(cut.ids)}
                /\ aKeys' = cut.ids
                /\ aOutcome' = [aOutcome EXCEPT !.insert = "ok"]
                /\ apc' = "flush"
                /\ UNCHANGED aResult
           ELSE /\ aOutcome' = [aOutcome EXCEPT !.insert = "raise"]
                /\ aResult' = <<>>
                /\ apc' = "done"
                /\ UNCHANGED <<collection, unflushed, aKeys>>
    /\ UNCHANGED <<nextId, embedding_service, aDocs, aEntities>>
    /\ UNCHANGED <<searchVars, coordVars, watchVars, queryVars>>
    /\ UNCHANGED extVars

\* add_documents, line 163 and the except branch: the batch is stored whole
\* or the call returns []. Whether the backend's JSON encoder takes a value
\* that add_documents left as it was is one of the ways backendOk turns out.
AddInsert(backendOk) ==
    /\ apc = "insert"
    /\ aTrace' = Append(aTrace, "insert")
    /\ IF InsertAccepts(aEntities) /\ backendOk
       THEN /\ collection' = collection \o RowsOf(aEntities)
            /\ unflushed' = unflushed \cup {aEntities.ids[i] : i \in 1..Len(aEntities.ids)}
            /\ aKeys' = aEntities.ids
            /\ aOutcome' = [aOutcome EXCEPT !.insert = "ok"]
            /\ apc' = "flush"
            /\ UNCHANGED aResult
       ELSE /\ aOutcome' = [aOutcome EXCEPT !.insert = "raise"]
            /\ aResult' = <<>>
            /\ apc' = "done"
            /\ UNCHANGED <<collection, unflushed, aKeys>>
    /\ UNCHANGED <<nextId, embedding_service, aDocs, aEntities>>
    /\ UNCHANGED <<searchVars, coordVars, watchVars, queryVars>>
    /\ UNCHANGED extVars

\* Mutant of AddFlush: the flush is made outside the try block.
AddFlushUnprotected(backendOk) ==
    /\ apc = "flush"
    /\ aTrace' = Append(aTrace, "flush")
    /\ IF backendOk
       THEN /\ unflushed' = {}
            /\ aOutcome' = [aOutcome EXCEPT !.flush = "ok"]
            /\ aResult' = aKeys
            /\ apc' = "done"
       ELSE /\ aOutcome' = [aOutcome EXCEPT !.flush = "raise"]
            /\ apc' = "raised"
            /\ UNCHANGED <<unflushed, aResult>>
    /\ UNCHANGED <<collection, nextId, embedding_service, aDocs, aEntities, aKeys>>
    /\ UNCHANGED <<searchVars, coordVars, watchVars, queryVars>>
    /\ UNCHANGED extVars

\* add_documents, lines 166-173: flush, then return the primary keys.
AddFlush(backendOk) ==
    /\ apc = "flush"
    /\ aTrace' = Append(aTrace, "flush")
    /\ IF backendOk
       THEN /\ unflushed' = {}
            /\ aOutcome' = [aOutcome EXCEPT !.flush = "ok"]
            /\ aResult' = aKeys
       ELSE /\ aOutcome' = [aOutcome EXCEPT !.flush = "raise"]
            /\ aResult' = <<>>
            /\ UNCHANGED unflushed
    /\ apc' = "done"
    /\ UNCHANGED <<collection, nextId, embedding_service, aDocs, aEntities, aKeys>>
    /\ UNCHANGED <<searchVars, coordVars, watchVars, queryVars>>
    /\ UNCHANGED extVars

SearchVectors == {OneHot(i, n) : i \in 1..2, n \in 0..(EmbeddingDim + 1)}

\* VectorStorage.search_with_embedding called by a client of the storage. A
\* search leaves the store as it is, so a search that follows a search reaches
\* no state the first one does not reach: it is not explored again.
Search(embedding, k, backendOk) ==
    /\ apc \in {"idle", "done"}
    /\ ~sArgs.called
    /\ LET r == SearchWithEmbedding(collection, embedding, k, backendOk)
       IN  /\ sResult' = r.docs
           /\ sCalls' = r.searchCalls
    /\ sArgs' = [embedding |-> embedding, k |-> k, called |-> TRUE]
    /\ ForgetAdd
    /\ eCall' = NoEmbedCall
    /\ UNCHANGED <<storeVars, coordVars, watchVars, queryVars, docVars, provVars, procVars>>

TextBatches == UNION {[1..n -> {<<"c1">>, <<"c2">>}] : n \in 0..MaxBatch}

\* EmbeddingService.embed_documents called by a client of the service. The
\* service neither reads nor changes the store, so its calls are explored
\* from the store as it is first loaded only.
EmbedDocumentsCall(texts, outcome) ==
    /\ apc = "idle"
    /\ nextId = 0
    /\ eCall.op = "none"
    /\ LET e == EmbedDocuments(texts, outcome)
       IN  eCall' = [op |-> "embed_documents", texts |-> texts, outcome |-> outcome,
                     result |-> e.value, handleCalls |-> e.handleCalls]
    /\ ForgetAdd
    /\ ForgetSearch
    /\ UNCHANGED <<storeVars, coordVars, watchVars, queryVars, docVars, provVars, procVars>>

\* EmbeddingService.embed_query called by a client of the service.
EmbedQueryCall(text, outcome) ==
    /\ apc = "idle"
    /\ nextId = 0
    /\ eCall.op = "none"
    /\ eCall' = [op |-> "embed_query", texts |-> <<text>>, outcome |-> outcome,
                 result |-> EmbedQuery(text, outcome), handleCalls |-> 1]
    /\ ForgetAdd
    /\ ForgetSearch
    /\ UNCHANGED <<storeVars, coordVars, watchVars, queryVars, docVars, provVars, procVars>>

\* ------------------------------------------------------ the coordinator
ProviderInstance(id, ptype) == [id |-> id, ptype |-> ptype]

\* provider.get_llm(model=..., temperature=..., max_tokens=...)
GetLlm(instance, model) == [owner |-> instance, model |-> model]

Piece(tag, n, body) == [tag |-> tag, n |-> n, body |-> body]

\* query, lines 165-178: the enumerated documents, then the question.
ContextPrompt(documents, query_text) ==
    <<Piece("instruction", 0, <<>>), Piece("Context:", 0, <<>>)>>
    \o [i \in 1..Len(documents) |-> Piece("Document", i, documents[i].page_content)]
    \o <<Piece("Question:", 0, query_text), Piece("Answer:", 0, <<>>)>>

\* Mutant of BarePrompt: the template is applied with no document in it.
BarePromptTemplated(query_text) == ContextPrompt(<<>>, query_text)

\* query, line 154: the bare query text is the prompt.
BarePrompt(query_text) == <<Piece("text", 0, query_text)>>

\* What the model behind a handle generates for a prompt.
Answer(handle, p) == [model |-> handle.model, prompt |-> p]

ObjectRepr == [model |-> "repr", prompt |-> <<>>]

\* llm.invoke answers with an object that has a content field or with a string.
InvokeResponse(handle, p, outcome) ==
    IF outcome = "object"
    THEN [hasContent |-> TRUE, content |-> Answer(handle, p), str |-> ObjectRepr]
    ELSE [hasContent |-> FALSE, content |-> ObjectRepr, str |-> Answer(handle, p)]

\* response.content if hasattr(response, 'content') else str(response)
ResponseText(response) ==
    IF response.hasContent THEN response.content ELSE response.str

NoQueryArgs == [query_text |-> <<>>, model |-> "None", provider_type |-> NoOverride]

NoQueryOutcome == [embed |-> "none", search |-> "none", create |-> "none",
                   invoke |-> "none"]

\* query is entered: nothing of the call has happened yet.
QueryBegin(query_text, model, provider_type) ==
    /\ qArgs' = [query_text |-> query_text, model |-> model,
                 provider_type |-> provider_type]
    /\ query_embedding' = <<>>
    /\ docs' = <<>>
    /\ llm' = GetLlm(provider, llm_model)
    /\ qCreated' = 0
    /\ prompt' = <<>>
    /\ qResult' = <<>>
    /\ qTrace' = <<>>
    /\ qOutcome' = NoQueryOutcome
    /\ qpc' = "embed"

\* query called by a client of the coordinator.
QueryStart(query_text, model, provider_type) ==
    /\ qpc \in {"idle", "done", "raised"}
    /\ QueryBegin(query_text, model, provider_type)
    /\ UNCHANGED <<storeVars, addVars, searchVars, coordVars, watchVars>>
    /\ UNCHANGED extVars

\* query, line 126: embed the query text.
QueryEmbed(outcome) ==
    /\ qpc = "embed"
    /\ query_embedding' = EmbedQuery(qArgs.query_text, outcome)
    /\ qTrace' = Append(qTrace, "embed")
    /\ qOutcome' = [qOutcome EXCEPT !.embed = outcome]
    /\ qpc' = "search"
    /\ UNCHANGED <<qArgs, docs, llm, qCreated, prompt, qResult>>
    /\ UNCHANGED <<storeVars, addVars, searchVars, coordVars, watchVars>>
    /\ UNCHANGED extVars

\* query, lines 129-132: retrieve with k = retrieve_top_k.
QuerySearch(backendOk) ==
    /\ qpc = "search"
    /\ LET r == SearchWithEmbedding(collection, query_embedding, TopK, backendOk)
       IN  /\ docs' = r.docs
           /\ qOutcome' = [qOutcome EXCEPT !.search =
                              IF r.searchCalls = 0 THEN "rejected"
                              ELSE IF backendOk THEN "ok" ELSE "raise"]
    /\ qTrace' = Append(qTrace, "search")
    /\ qpc' = "resolve"
    /\ UNCHANGED <<qArgs, query_embedding, llm, qCreated, prompt, qResult>>
    /\ UNCHANGED <<storeVars, addVars, searchVars, coordVars, watchVars>>
    /\ UNCHANGED extVars

\* model or self.llm_model
EffectiveModel(model, default) == IF model = "None" THEN default ELSE model

\* Mutant of QueryResolve: the provider built for the override is kept as the
\* coordinator's provider.
QueryResolveCaching(createOk) ==
    /\ qpc = "resolve"
    /\ IF qArgs.provider_type # NoOverride /\ qArgs.provider_type # provider.ptype
       THEN /\ qCreated' = qCreated + 1
            /\ IF createOk
               THEN /\ provider' = ProviderInstance(1, qArgs.provider_type)
                    /\ llm' = GetLlm(ProviderInstance(1, qArgs.provider_type),
                                     EffectiveModel(qArgs.model, llm_model))
                    /\ qOutcome' = [qOutcome EXCEPT !.create = "ok"]
                    /\ qpc' = "invoke"
               ELSE /\ qOutcome' = [qOutcome EXCEPT !.create = "raise"]
                    /\ qpc' = "raised"
                    /\ UNCHANGED <<llm, provider>>
       ELSE /\ llm' = GetLlm(provider, EffectiveModel(qArgs.model, llm_model))
            /\ qpc' = "invoke"
            /\ UNCHANGED <<qCreated, qOutcome, provider>>
    /\ UNCHANGED <<qArgs, query_embedding, docs, prompt, qResult, qTrace>>
    /\ UNCHANGED <<storeVars, addVars, searchVars, llm_model, watchVars>>
    /\ UNCHANGED extVars

\* query, lines 135-149: a provider for this call only when the override
\* differs from the default provider's type.
QueryResolve(createOk) ==
    /\ qpc = "resolve"
    /\ IF qArgs.provider_type # NoOverride /\ qArgs.provider_type # provider.ptype
       THEN /\ qCreated' = qCreated + 1
            /\ IF createOk
               THEN /\ llm' = GetLlm(ProviderInstance(1, qArgs.provider_type),
                                     EffectiveModel(qArgs.model, llm_model))
                    /\ qOutcome' = [qOutcome EXCEPT !.create = "ok"]
                    /\ qpc' = "invoke"
               ELSE /\ qOutcome' = [qOutcome EXCEPT !.create = "raise"]
                    /\ qpc' = "raised"
                    /\ UNCHANGED llm
       ELSE /\ llm' = GetLlm(provider, EffectiveModel(qArgs.model, llm_model))
            /\ qpc' = "invoke"
            /\ UNCHANGED <<qCreated, qOutcome>>
    /\ UNCHANGED <<qArgs, query_embedding, docs, prompt, qResult, qTrace>>
    /\ UNCHANGED <<storeVars, addVars, searchVars, coordVars, watchVars>>
    /\ UNCHANGED extVars

InvokeOutcomes == {"object", "string", "raise"}

\* Mutant of QueryInvoke: a failed invoke is tried once more.
QueryInvokeRetry(outcome) ==
    /\ qpc = "invoke"
    /\ LET p == IF docs = <<>> THEN BarePrompt(qArgs.query_text)
                ELSE ContextPrompt(docs, qArgs.query_text)
           o == IF outcome = "raise" THEN "object" ELSE outcome
       IN  /\ prompt' = p
           /\ qResult' = <<[query      |-> qArgs.query_text,
                            context    |-> docs,
                            response   |-> ResponseText(InvokeResponse(llm, p, o)),
                            no_context |-> (docs = <<>>)]>>
    /\ qpc' = "done"
    /\ qTrace' = IF outcome = "raise" THEN qTrace \o <<"invoke", "invoke">>
                 ELSE Append(qTrace, "invoke")
    /\ qOutcome' = [qOutcome EXCEPT !.invoke = outcome]
    /\ UNCHANGED <<qArgs, query_embedding, docs, llm, qCreated>>
    /\ UNCHANGED <<storeVars, addVars, searchVars, coordVars, watchVars>>
    /\ UNCHANGED extVars

\* Mutant of QueryInvoke: a failed invoke is logged and an empty answer returned.
QueryInvokeSwallow(outcome) ==
    /\ qpc = "invoke"
    /\ LET p == IF docs = <<>> THEN BarePrompt(qArgs.query_text)
                ELSE ContextPrompt(docs, qArgs.query_text)
       IN  /\ prompt' = p
           /\ qResult' = <<[query      |-> qArgs.query_text,
                            context    |-> docs,
                            response   |-> IF outcome = "raise" THEN ObjectRepr
                                           ELSE ResponseText(InvokeResponse(llm, p, outcome)),
                            no_context |-> (docs = <<>>)]>>
    /\ qpc' = "done"
    /\ qTrace' = Append(qTrace, "invoke")
    /\ qOutcome' = [qOutcome EXCEPT !.invoke = outcome]
    /\ UNCHANGED <<qArgs, query_embedding, docs, llm, qCreated>>
    /\ UNCHANGED <<storeVars, addVars, searchVars, coordVars, watchVars>>
    /\ UNCHANGED extVars

\* query, lines 151-190: the prompt of the path taken, one invoke, the result.
QueryInvoke(outcome) ==
    /\ qpc = "invoke"
    /\ IF docs = <<>>
       THEN LET p == BarePrompt(qArgs.query_text)
            IN  /\ prompt' = p
                /\ IF outcome = "raise"
                   THEN qpc' = "raised" /\ UNCHANGED qResult
                   ELSE /\ qpc' = "done"
                        /\ qResult' = <<[query      |-> qArgs.query_text,
                                         context    |-> <<>>,
                                         response   |-> ResponseText(InvokeResponse(llm, p, outcome)),
                                         no_context |-> TRUE]>>
       ELSE LET p == ContextPrompt(docs, qArgs.query_text)
            IN  /\ prompt' = p
                /\ IF outcome = "raise"
                   THEN qpc' = "raised" /\ UNCHANGED qResult
                   ELSE /\ qpc' = "done"
                        /\ qResult' = <<[query      |-> qArgs.query_text,
                                         context    |-> docs,
                                         response   |-> ResponseText(InvokeResponse(llm, p, outcome)),
                                         no_context |-> FALSE]>>
    /\ qTrace' = Append(qTrace, "invoke")
    /\ qOutcome' = [qOutcome EXCEPT !.invoke = outcome]
    /\ UNCHANGED <<qArgs, query_embedding, docs, llm, qCreated>>
    /\ UNCHANGED <<storeVars, addVars, searchVars, coordVars, watchVars>>
    /\ UNCHANGED extVars

\* ---------------------------------------------------------- the watcher
NoWatcherCall == [op |-> "none", watcherBefore |-> 0, observersBefore |-> <<>>]

\* Mutant of StartDocumentWatcher: an observer is started whether or not one
\* is held already.
StartDocumentWatcherUnguarded(startOk) ==
    /\ Len(observers) < MaxObservers
    /\ wCall' = [op |-> "start", watcherBefore |-> watcher, observersBefore |-> observers]
    /\ IF startOk
       THEN /\ observers' = Append(observers, "running")
            /\ watcher' = Len(observers) + 1
       ELSE /\ observers' = Append(observers, "failed")
            /\ UNCHANGED watcher
    /\ UNCHANGED <<storeVars, addVars, searchVars, coordVars, queryVars>>
    /\ UNCHANGED extVars

\* start_document_watcher: start_watcher creates and starts an observer only
\* when no watcher is held; observer.start() may raise, and then none is held.
StartDocumentWatcher(startOk) ==
    /\ watcher = 0 => Len(observers) < MaxObservers
    /\ wCall' = [op |-> "start", watcherBefore |-> watcher, observersBefore |-> observers]
    /\ IF watcher = 0
       THEN IF startOk
            THEN /\ observers' = Append(observers, "running")
                 /\ watcher' = Len(observers) + 1
            ELSE /\ observers' = Append(observers, "failed")
                 /\ UNCHANGED watcher
       ELSE UNCHANGED <<watcher, observers>>
    /\ UNCHANGED <<storeVars, addVars, searchVars, coordVars, queryVars>>
    /\ UNCHANGED extVars

\* stop_document_watcher: the held observer is told to stop and is let go.
StopDocumentWatcher ==
    /\ wCall' = [op |-> "stop", watcherBefore |-> watcher, observersBefore |-> observers]
    /\ IF watcher # 0
       THEN /\ observers' = [observers EXCEPT ![watcher] = "stopped"]
            /\ watcher' = 0
       ELSE UNCHANGED <<watcher, observers>>
    /\ UNCHANGED <<storeVars, addVars, searchVars, coordVars, queryVars>>
    /\ UNCHANGED extVars

\* ------------------------------------------------ the document processor
\* The files the processor is pointed at. A path and a text are sequences of
\* tokens; the last token of a path is its extension.
FileA == <<"vault", "a", ".md">>

FileB == <<"vault", "sub", "b", ".md">>

FileE == <<"vault", "e", ".md">>

FileN == <<"vault", "n", ".txt">>

FileGone == <<"vault", "gone", ".md">>

FileM == <<"vault", "m", ".markdown">>

Paths == {FileA, FileB, FileE, FileN, FileGone}

\* os.path.exists(file_path)
Exists(path) == path \in {FileA, FileB, FileE, FileN, FileM}

\* f.read(): a.md has a front-matter block and two sections; sub/b.md has a
\* front-matter block in which a value holds three dashes; e.md is empty.
ContentOf(path) ==
    IF path = FileA
    THEN <<"---", "\n", "title:", "t1", "\n", "---", "\n",
           "##", "c1", "\n", "##", "c2">>
    ELSE IF path = FileB
    THEN <<"---", "\n", "title:", "t1", "---", "t2", "\n",
           "date:", "2024-01-01", "\n", "---", "\n", "c1">>
    ELSE IF path = FileN THEN <<"c1">>
    ELSE IF path = FileM THEN <<"c2">>
    ELSE <<>>

\* Mutant of EndsWithMd: text files are taken as well.
EndsWithMdOrTxt(path) == path[Len(path)] \in {".md", ".txt"}

\* file_path.endswith('.md')
EndsWithMd(path) == path[Len(path)] = ".md"

\* content.find(token, start): the first index from start on, 0 when there is none
RECURSIVE Find(_, _, _)
Find(content, token, start) ==
    IF start > Len(content) THEN 0
    ELSE IF content[start] = token THEN start
    ELSE Find(content, token, start + 1)

RECURSIVE StripLeft(_)
StripLeft(text) ==
    IF text # <<>> /\ Head(text) = "\n" THEN StripLeft(Tail(text)) ELSE text

RECURSIVE StripRight(_)
StripRight(text) ==
    IF text # <<>> /\ text[Len(text)] = "\n"
    THEN StripRight(SubSeq(text, 1, Len(text) - 1))
    ELSE text

\* str.strip()
Strip(text) == StripRight(StripLeft(text))

\* str.split(sep)
RECURSIVE SplitAt(_, _)
SplitAt(text, sep) ==
    LET i == Find(text, sep, 1)
    IN  IF i = 0 THEN <<text>>
        ELSE <<SubSeq(text, 1, i - 1)>> \o SplitAt(SubSeq(text, i + 1, Len(text)), sep)

NonEmpty(text) == text # <<>>

KeyTokens == {"title:", "date:"}

KeyName(token) == IF token = "title:" THEN "title" ELSE "date"

\* The Python type yaml.safe_load gives a plain scalar.
ScalarType(value) == IF value = <<"2024-01-01">> THEN "date" ELSE "str"

\* yaml.safe_load of a block of `key: value` lines: a dictionary when every
\* line is one, None for an empty block, a string for one line without key,
\* else a YAMLError.
SafeLoad(text) ==
    LET lines == SelectSeq(SplitAt(text, "\n"), NonEmpty)
    IN  IF lines = <<>> THEN [kind |-> "none", items |-> {}]
        ELSE IF \A i \in 1..Len(lines) : lines[i][1] \in KeyTokens
        THEN [kind  |-> "dict",
              items |-> {[key |-> KeyName(lines[i][1]),
                          t   |-> ScalarType(Tail(lines[i])),
                          et  |-> "none",
                          v   |-> Tail(lines[i])] : i \in 1..Len(lines)}]
        ELSE IF Len(lines) = 1 THEN [kind |-> "scalar", items |-> {}]
        ELSE [kind |-> "error", items |-> {}]

\* _extract_metadata, lines 127-130: every line with a colon, value as string
FallbackItems(text) ==
    LET lines == SelectSeq(SplitAt(text, "\n"), NonEmpty)
    IN  {[key |-> KeyName(lines[i][1]), t |-> "str", et |-> "none",
          v |-> Tail(lines[i])] : i \in {j \in 1..Len(lines) : lines[j][1] \in KeyTokens}}

\* doc.metadata[key] = value for every item
UpdateMetadata(metadata, items) ==
    {e \in metadata : \A n \in items : n.key # e.key} \cup items

\* DocumentProcessor._extract_metadata
ExtractMetadata(doc) ==
    LET content == doc.page_content
        end_idx == Find(content, "---", 2)
    IN  IF content # <<>> /\ content[1] = "---" /\ end_idx # 0
        THEN LET frontmatter_str == Strip(SubSeq(content, 2, end_idx - 1))
                 loaded == SafeLoad(frontmatter_str)
                 items  == IF loaded.kind = "error" THEN FallbackItems(frontmatter_str)
                           ELSE loaded.items
             IN  [page_content |-> Strip(SubSeq(content, end_idx + 1, Len(content))),
                  metadata     |-> UpdateMetadata(doc.metadata, items)]
        ELSE doc

\* The first index of a newline that a heading follows, 0 when there is none.
RECURSIVE FindHeading(_, _)
FindHeading(text, start) ==
    IF start >= Len(text) THEN 0
    ELSE IF text[start] = "\n" /\ text[start + 1] = "##" THEN start
    ELSE FindHeading(text, start + 1)

\* The text cut at its headings (the first separator of the splitter).
RECURSIVE SplitText(_)
SplitText(text) ==
    LET i == FindHeading(text, 1)
    IN  IF i = 0 THEN <<text>>
        ELSE <<SubSeq(text, 1, i - 1)>> \o SplitText(SubSeq(text, i + 1, Len(text)))

\* text_splitter.split_documents([doc]): a chunk per section that is not
\* empty, each with the metadata of the document.
SplitDocuments(doc) ==
    LET pieces == SelectSeq(SplitText(doc.page_content), NonEmpty)
    IN  [i \in 1..Len(pieces) |-> Chunk(Strip(pieces[i]), doc.metadata)]

\* process_file, lines 61-74: the chunks of a file that was read.
ChunksOfFile(path) ==
    SplitDocuments(ExtractMetadata(Chunk(ContentOf(path), {MetaSource(path)})))

NoFileArgs == [path |-> <<>>, readOk |-> TRUE]

RECURSIVE AllChunks(_)
AllChunks(log) ==
    IF log = <<>> THEN <<>> ELSE Head(log).chunks \o AllChunks(Tail(log))

\* process_file returns; all_chunks.extend(chunks) when process_directory
\* made the call.
ProcessFileFinish(path, readOk, result, handOffs, stored) ==
    /\ pResult' = result
    /\ ppc' = "done"
    /\ IF dpc = "run"
       THEN /\ dLog' = Append(dLog, [path |-> path, readOk |-> readOk,
                                     chunks |-> result, handOffs |-> handOffs,
                                     stored |-> stored])
            /\ dQueue' = Tail(dQueue)
            /\ UNCHANGED <<dpc, dResult>>
       ELSE /\ dpc' = "idle"
            /\ dLog' = <<>>
            /\ dQueue' = <<>>
            /\ dResult' = 0

\* process_file, lines 51-86, up to the hand-off to the storage.
ProcessFileCall(path, readOk) ==
    /\ ppc \in {"idle", "done"}
    /\ IF dpc = "run"
       THEN dQueue # <<>> /\ path = Head(dQueue)
       ELSE nextId + Len(ChunksOfFile(path)) <= MaxIds
    /\ pArgs' = [path |-> path, readOk |-> readOk]
    /\ pBefore' = Len(collection)
    /\ IF ~EndsWithMd(path) \/ ~Exists(path) \/ ~readOk
       THEN /\ pChunks' = <<>>
            /\ pHandOffs' = 0
            /\ ProcessFileFinish(path, readOk, <<>>, 0, FALSE)
            /\ ForgetAdd
            /\ ForgetSearch
            /\ UNCHANGED storeVars
       ELSE LET chunks == ChunksOfFile(path)
            IN  /\ pChunks' = chunks
                /\ IF registered = 1 /\ chunks # <<>>
                   THEN /\ AddBegin(chunks)
                        /\ pHandOffs' = 1
                        /\ ppc' = "handoff"
                        /\ UNCHANGED <<pResult, dpc, dQueue, dLog, dResult>>
                   ELSE /\ pHandOffs' = 0
                        /\ ProcessFileFinish(path, readOk, chunks, 0, FALSE)
                        /\ ForgetAdd
                        /\ ForgetSearch
                        /\ UNCHANGED storeVars
    /\ UNCHANGED <<registered, coordVars, watchVars, queryVars, embedVars, provVars, procVars>>

\* Mutant of ProcessFileReturn: only chunks that were stored are returned.
ProcessFileReturnStored ==
    /\ ppc = "handoff"
    /\ apc = "done"
    /\ ProcessFileFinish(pArgs.path, pArgs.readOk,
                         IF aResult # <<>> THEN pChunks ELSE <<>>, pHandOffs,
                         aResult # <<>>)
    /\ UNCHANGED <<registered, pArgs, pChunks, pHandOffs, pBefore>>
    /\ UNCHANGED <<storeVars, addVars, searchVars, coordVars, watchVars, queryVars,
                   embedVars, provVars, procVars>>

\* process_file, lines 80-86: add_documents has returned, whatever it
\* returned the chunks are handed back.
ProcessFileReturn ==
    /\ ppc = "handoff"
    /\ apc = "done"
    /\ ProcessFileFinish(pArgs.path, pArgs.readOk, pChunks, pHandOffs, aResult # <<>>)
    /\ UNCHANGED <<registered, pArgs, pChunks, pHandOffs, pBefore>>
    /\ UNCHANGED <<storeVars, addVars, searchVars, coordVars, watchVars, queryVars,
                   embedVars, provVars, procVars>>

VaultListing == <<FileA, FileE, FileGone, FileN, FileB>>

GlobMatches(path) == Exists(path) /\ path[1] = "vault" /\ path[Len(path)] = ".md"

\* glob.glob(f"{directory}/**/*.md", recursive=True)
Glob == SelectSeq(VaultListing, GlobMatches)

RECURSIVE ChunkTotal(_)
ChunkTotal(files) ==
    IF files = <<>> THEN 0 ELSE Len(ChunksOfFile(Head(files))) + ChunkTotal(Tail(files))

\* process_vault and process_directory are entered: the files of the glob.
ProcessVaultStart ==
    /\ ppc \in {"idle", "done"}
    /\ dpc \in {"idle", "done"}
    /\ nextId + ChunkTotal(Glob) <= MaxIds
    /\ dpc' = "run"
    /\ dQueue' = Glob
    /\ dLog' = <<>>
    /\ dResult' = 0
    /\ ppc' = "idle"
    /\ pArgs' = NoFileArgs
    /\ pChunks' = <<>>
    /\ pResult' = <<>>
    /\ pHandOffs' = 0
    /\ pBefore' = Len(collection)
    /\ ForgetAdd
    /\ ForgetSearch
    /\ UNCHANGED <<registered, storeVars, coordVars, watchVars, queryVars, embedVars,
                   provVars, procVars>>

\* Mutant of ProcessVaultReturn: the files processed are counted.
ProcessVaultReturnFiles ==
    /\ dpc = "run"
    /\ dQueue = <<>>
    /\ dResult' = Len(dLog)
    /\ dpc' = "done"
    /\ UNCHANGED <<registered, ppc, pArgs, pChunks, pResult, pHandOffs, pBefore,
                   dQueue, dLog>>
    /\ UNCHANGED <<storeVars, addVars, searchVars, coordVars, watchVars, queryVars,
                   embedVars, provVars, procVars>>

\* process_directory has gone through the files: return len(chunks).
ProcessVaultReturn ==
    /\ dpc = "run"
    /\ dQueue = <<>>
    /\ dResult' = Len(AllChunks(dLog))
    /\ dpc' = "done"
    /\ UNCHANGED <<registered, ppc, pArgs, pChunks, pResult, pHandOffs, pBefore,
                   dQueue, dLog>>
    /\ UNCHANGED <<storeVars, addVars, searchVars, coordVars, watchVars, queryVars,
                   embedVars, provVars, procVars>>

\* --------------------------------------------------------- the providers
\* number of provider instances built by direct calls to the factory
MaxProviders == 1

\* Outcomes of the request a health check sends to the backend: an answer, an
\* answer with an error status, no answer (the request raises).
ProbeOutcomes == {"ok", "status500", "raise"}

\* The names the factory is asked for; "bogus" is no member of ProviderType.
ProviderNames == ProviderTypes \cup {"bogus"}

\* DEFAULT_CONFIG, the provider settings
DefaultConfig ==
    [model_provider      |-> "litellm",
     force_litellm_proxy |-> TRUE,
     enable_fallback     |-> TRUE,
     fallback_providers  |-> <<"ollama", "openai">>]

\* Mutant of HealthCheck: the probe is made outside the try block.
HealthCheckUnprotected(ptype, probe) ==
    IF probe = "raise" THEN "raised"
    ELSE IF probe = "ok" THEN "True" ELSE "False"

\* <driver>.health_check: True when the probe worked. The Ollama driver reads
\* the status of the answer; the clients of the other two raise on an error
\* status; every exception is turned into False.
HealthCheck(ptype, probe) ==
    IF ptype = "ollama"
    THEN IF probe = "raise" THEN "False"
         ELSE IF probe = "ok" THEN "True" ELSE "False"
    ELSE IF probe = "ok" THEN "True" ELSE "False"

\* <driver>.initialize, run by ModelProvider.__init__: the library has to be
\* installed, the OpenAI driver wants an API key and makes no probe, the other
\* two probe and only warn when the probe fails.
Initialize(ptype, probe, installed, key) ==
    IF ptype \notin installed
    THEN [error |-> "ProviderNotAvailableError", initialized |-> FALSE, probes |-> 0]
    ELSE IF ptype = "openai"
    THEN IF key
         THEN [error |-> "none", initialized |-> TRUE, probes |-> 0]
         ELSE [error |-> "ProviderNotAvailableError", initialized |-> FALSE, probes |-> 0]
    ELSE IF HealthCheck(ptype, probe) = "raised"
    THEN [error |-> "Exception", initialized |-> FALSE, probes |-> 1]
    ELSE [error |-> "none", initialized |-> TRUE, probes |-> 1]

\* Mutant of CreateProvider: a type that is not registered is built all the
\* same.
CreateProviderUnregistered(reg, name, probe, installed, key) ==
    IF name \notin ProviderTypes
    THEN [error |-> "ValueError", message |-> "unknown_type",
          initialized |-> FALSE, probes |-> 0]
    ELSE LET r == Initialize(name, probe, installed, key)
         IN  [error |-> r.error, message |-> "none",
              initialized |-> r.initialized, probes |-> r.probes]

\* ProviderFactory.create_provider: a string that is no member of ProviderType
\* is refused with "Unknown provider type: <name>"; a type that is not in the
\* registry with "Provider <name> not registered. Available providers: [...]";
\* else the registered class is constructed, which runs initialize().
CreateProvider(reg, name, probe, installed, key) ==
    IF name \notin ProviderTypes
    THEN [error |-> "ValueError", message |-> "unknown_type",
          initialized |-> FALSE, probes |-> 0]
    ELSE IF name \notin reg
    THEN [error |-> "ValueError", message |-> "available_providers",
          initialized |-> FALSE, probes |-> 0]
    ELSE LET r == Initialize(name, probe, installed, key)
         IN  [error |-> r.error, message |-> "none",
              initialized |-> r.initialized, probes |-> r.probes]

NoProviderCall == [op |-> "none", ptype |-> "None", probe |-> "none",
                   result |-> "none", message |-> "none", built |-> 0]

NoService == [state |-> "none", ptype |-> "None", attempts |-> <<>>, error |-> "none",
              embedding |-> "None"]

\* The provider types in the order providers.py registers them when loaded.
RegistrationOrder == <<"litellm", "ollama", "openai">>

\* No provider instance handed to a constructor.
NoProvider == "None"

\* EmbeddingService.__init__, lines 32-43: the provider the embedding handle is
\* taken from. A provider handed in is used as it is; else the Router provider
\* when force_litellm_proxy is set, else the configured one.
EmbeddingProvider(reg, handed, cfg, probe, installed, key) ==
    IF handed # NoProvider
    THEN [error |-> "none", ptype |-> handed, created |-> <<>>]
    ELSE LET name == IF cfg.force_litellm_proxy THEN "litellm" ELSE cfg.model_provider
             r    == CreateProvider(reg, name, probe, installed, key)
         IN  [error |-> r.error, ptype |-> IF r.error = "none" THEN name ELSE "None",
              created |-> <<name>>]

\* ModelProviderFactory.create called by a client.
CreateProviderCall(name, probe) ==
    /\ Len(instances) < MaxProviders
    /\ LET r == CreateProvider(registry, name, probe, sdk, apiKey)
       IN  /\ instances' = IF r.error = "none"
                           THEN Append(instances, [ptype |-> name,
                                                   initialized |-> r.initialized,
                                                   probes |-> r.probes])
                           ELSE instances
           /\ vCall' = [op |-> "create", ptype |-> name, probe |-> probe,
                        result |-> IF r.error = "none" THEN "ok" ELSE r.error,
                        message |-> r.message,
                        built |-> Len(instances') - Len(instances)]
    /\ UNCHANGED <<sdk, apiKey, config, svc, registry>>
    /\ UNCHANGED <<storeVars, addVars, searchVars, coordVars, watchVars, queryVars,
                   embedVars, docVars, procVars>>

\* health_check called on a provider that was built.
HealthCheckCall(i, probe) ==
    /\ i \in 1..Len(instances)
    /\ vCall' = [op |-> "health_check", ptype |-> instances[i].ptype, probe |-> probe,
                 result |-> HealthCheck(instances[i].ptype, probe),
                 message |-> "none", built |-> 0]
    /\ UNCHANGED <<sdk, apiKey, config, instances, svc, registry>>
    /\ UNCHANGED <<storeVars, addVars, searchVars, coordVars, watchVars, queryVars,
                   embedVars, docVars, procVars>>

\* ProviderFactory.register_provider with one of the driver classes, as the
\* module providers.py does for the three drivers when it is loaded.
RegisterProvider(ptype) ==
    /\ Cardinality(registry) < Len(RegistrationOrder)
    /\ ptype = RegistrationOrder[Cardinality(registry) + 1]
    /\ registry' = registry \cup {ptype}
    /\ vCall' = [NoProviderCall EXCEPT !.op = "register", !.ptype = ptype]
    /\ UNCHANGED <<sdk, apiKey, config, instances, svc>>
    /\ UNCHANGED <<storeVars, addVars, searchVars, coordVars, watchVars, queryVars,
                   embedVars, docVars, procVars>>

\* EmbeddingService.__init__ called by a client, with or without a provider,
\* before the coordinator is built.
EmbeddingServiceInit(handed, probe) ==
    /\ svc.state = "none"
    /\ LET e == EmbeddingProvider(registry, handed, config, probe, sdk, apiKey)
       IN  vCall' = [op |-> "embedding_service", ptype |-> e.ptype, probe |-> probe,
                     result |-> IF e.error = "none" THEN "ok" ELSE e.error,
                     message |-> "none", built |-> 0]
    /\ UNCHANGED <<sdk, apiKey, config, instances, svc, registry>>
    /\ UNCHANGED <<storeVars, addVars, searchVars, coordVars, watchVars, queryVars,
                   embedVars, docVars, procVars>>

\* RAGService.__init__, lines 29-77: the provider handed in, else the Router
\* provider when force_litellm_proxy is set, else the configured one; the
\* embedding service is handed that provider; an error of the construction
\* leaves the constructor.
RAGServiceInit(handed, probe) ==
    /\ svc.state = "none"
    /\ LET name == IF handed # NoProvider THEN handed
                   ELSE IF config.force_litellm_proxy THEN "litellm"
                   ELSE config.model_provider
           r    == IF handed # NoProvider
                   THEN [error |-> "none"]
                   ELSE CreateProvider(registry, name, probe, sdk, apiKey)
           e    == EmbeddingProvider(registry, name, config, probe, sdk, apiKey)
       IN  IF r.error = "none" /\ e.error = "none"
           THEN /\ svc' = [state |-> "ready", ptype |-> name,
                           attempts |-> IF handed # NoProvider THEN <<>> ELSE <<name>>,
                           error |-> "none", embedding |-> e.ptype]
                /\ provider' = ProviderInstance(0, name)
                /\ llm' = GetLlm(ProviderInstance(0, name), llm_model)
           ELSE /\ svc' = [state |-> "raised", ptype |-> "None",
                           attempts |-> IF handed # NoProvider THEN <<>> ELSE <<name>>,
                           error |-> IF r.error # "none" THEN r.error ELSE e.error,
                           embedding |-> "None"]
                /\ UNCHANGED <<provider, llm>>
    /\ vCall' = NoProviderCall
    /\ UNCHANGED <<sdk, apiKey, config, instances, registry, llm_model>>
    /\ UNCHANGED <<qpc, qArgs, query_embedding, docs, qCreated, prompt, qResult,
                   qTrace, qOutcome>>
    /\ UNCHANGED <<storeVars, addVars, searchVars, watchVars, embedVars, docVars, procVars>>

\* ------------------------------------------------------------ the server
\* DEFAULT_CONFIG["milvus_collection"]: the collection of every coordinator
\* that is built from the default configuration or from one that only sets
\* the host and the port.
CollectionName == "open_webui_obelisk_rag"

ServerDown == [phase |-> "down", watch |-> FALSE]

Message(role, content) == [role |-> role, content |-> content]

NoData == [hasMessages |-> FALSE, messages |-> <<>>, hasPrompt |-> FALSE, prompt |-> <<>>]

ChatData(messages) == [NoData EXCEPT !.hasMessages = TRUE, !.messages = messages]

GenerateData(text) == [NoData EXCEPT !.hasPrompt = TRUE, !.prompt = text]

\* A request body: no bytes, bytes that are no JSON, or a JSON text, which
\* has the spacing its writer gave it.
EmptyBody == [kind |-> "empty", spacing |-> "none", data |-> NoData]

RawBody == [kind |-> "raw", spacing |-> "none", data |-> NoData]

JsonBody(spacing, data) == [kind |-> "json", spacing |-> spacing, data |-> data]

\* json.dumps(data).encode(): the text json.dumps writes, with its own spacing.
JsonDumps(data) == JsonBody("dumps", data)

ChatDatas ==
    { ChatData(<<Message("user", <<"q1">>)>>),
      ChatData(<<Message("system", <<"s1">>), Message("user", <<"q2">>)>>),
      ChatData(<<Message("user", <<"q2">>), Message("system", <<"s1">>),
                 Message("user", <<"q1">>), Message("system", <<"s2">>)>>),
      ChatData(<<Message("assistant", <<"a1">>)>>),
      NoData }

GenerateDatas == { GenerateData(<<"q1">>), GenerateData(<<"q2">>), NoData }

Requests ==
    { [method |-> "POST", path |-> "chat", body |-> JsonBody("client", d)] : d \in ChatDatas }
    \cup { [method |-> "POST", path |-> "generate", body |-> JsonBody("client", d)] :
              d \in GenerateDatas }
    \cup { [method |-> "POST", path |-> "generate", body |-> JsonDumps(GenerateData(<<"q1">>))],
           [method |-> "POST", path |-> "chat", body |-> RawBody],
           [method |-> "POST", path |-> "generate", body |-> EmptyBody],
           [method |-> "POST", path |-> "embeddings", body |-> JsonBody("client", GenerateData(<<"q1">>))],
           [method |-> "PUT", path |-> "chat",
            body |-> JsonBody("client", ChatData(<<Message("user", <<"q1">>)>>))],
           [method |-> "GET", path |-> "tags", body |-> EmptyBody] }

NoRequest == [method |-> "none", path |-> "none", body |-> EmptyBody]

NoForward == [method |-> "none", path |-> "none", body |-> EmptyBody]

\* "\n\n".join(f"Document {i+1}:\n{doc.page_content}" ...), lines 63-66
RECURSIVE ContextText(_, _)
ContextText(documents, i) ==
    IF i > Len(documents) THEN <<>>
    ELSE (IF i > 1 THEN <<"\n\n">> ELSE <<>>)
         \o <<"Document", ToString(i), ":">> \o documents[i].page_content
         \o ContextText(documents, i + 1)

\* lines 71-74: the system message that carries the context
SystemMsg(documents) ==
    Message("system", <<"Use the following information", "Context from documentation:">>
                      \o ContextText(documents, 1))

\* lines 117-124: the prompt that carries the context
NewPrompt(documents, query) ==
    <<"Use the following information", "Context from documentation:">>
    \o ContextText(documents, 1) \o <<"Question:">> \o query \o <<"Answer:">>

UserMessages(messages) == SelectSeq(messages, LAMBDA m : m.role = "user")

HasSystem(messages) == \E i \in 1..Len(messages) : messages[i].role = "system"

FirstSystem(messages) ==
    CHOOSE i \in 1..Len(messages) :
        /\ messages[i].role = "system"
        /\ \A j \in 1..(i - 1) : messages[j].role # "system"

\* Mutant of EnhanceMessages: the context message is always put in front.
EnhanceMessagesInsertOnly(messages, documents) == <<SystemMsg(documents)>> \o messages

\* lines 76-86: the context message is put in front when there is no system
\* message, else it takes the place of the first one.
EnhanceMessages(messages, documents) ==
    IF ~HasSystem(messages)
    THEN <<SystemMsg(documents)>> \o messages
    ELSE [messages EXCEPT ![FirstSystem(messages)] = SystemMsg(documents)]

\* lines 41-52 and 95-97: the query text of a request the proxy enhances, in a
\* sequence of one, and the empty sequence for every other request.
ProxyQuery(req) ==
    IF ~(req.path \in {"chat", "generate"} /\ req.method = "POST"
         /\ req.body.kind = "json")
    THEN <<>>
    ELSE IF req.path = "chat" /\ req.body.data.hasMessages
    THEN LET u == UserMessages(req.body.data.messages)
         IN  IF u = <<>> THEN <<>> ELSE <<u[Len(u)].content>>
    ELSE IF req.path = "generate" /\ req.body.data.hasPrompt
    THEN <<req.body.data.prompt>>
    ELSE <<>>

\* lines 57-135: the body after the RAG query has ended. result is the sequence
\* of what query returned, empty when it raised.
EnhancedBody(req, result) ==
    IF result = <<>> \/ result[1].context = <<>> \/ result[1].no_context
    THEN req.body
    ELSE IF req.path = "chat"
    THEN JsonDumps([req.body.data EXCEPT
                       !.messages = EnhanceMessages(@, result[1].context)])
    ELSE JsonDumps([req.body.data EXCEPT
                       !.prompt = NewPrompt(result[1].context, @)])

UpstreamOutcomes == {"json", "bytes", "raise"}

\* handle_serve, lines 182-207: the coordinator is built and the vault is to be
\* indexed.
HandleServeStart(watch) ==
    /\ server.phase = "down"
    /\ server' = [phase |-> "index", watch |-> watch]
    /\ coordinators' = Append(coordinators, [by |-> "handle_serve",
                                              collection |-> CollectionName])
    /\ UNCHANGED <<openai_service, rpc, request, forwards, forwarded, rResponse>>
    /\ UNCHANGED <<storeVars, addVars, searchVars, coordVars, watchVars, queryVars,
                   embedVars, docVars, provVars>>
    /\ UNCHANGED <<threadVars, maintVars, toggleVars>>

\* handle_serve, lines 206-212: process_vault has returned; the watcher is
\* started when it was asked for.
HandleServeIndexed ==
    /\ server.phase = "index"
    /\ dpc = "done"
    /\ server' = [server EXCEPT !.phase = IF server.watch THEN "watch" ELSE "setup"]
    /\ UNCHANGED <<coordinators, openai_service, rpc, request, forwards, forwarded,
                   rResponse>>
    /\ UNCHANGED <<storeVars, addVars, searchVars, coordVars, watchVars, queryVars,
                   embedVars, docVars, provVars>>
    /\ UNCHANGED <<threadVars, maintVars, toggleVars>>

\* handle_serve, lines 214-250: the routes are set up and the server listens.
HandleServeListen ==
    /\ \/ server.phase = "setup"
       \/ server.phase = "watch" /\ wCall.op = "start"
    /\ server' = [server EXCEPT !.phase = "up"]
    /\ UNCHANGED <<coordinators, openai_service, rpc, request, forwards, forwarded,
                   rResponse>>
    /\ UNCHANGED <<storeVars, addVars, searchVars, coordVars, watchVars, queryVars,
                   embedVars, docVars, provVars>>
    /\ UNCHANGED <<threadVars, maintVars, toggleVars>>

\* proxy_ollama_api, lines 29-57 and 95-103: a request arrives; the body is
\* read and, for a request the proxy enhances, the RAG query is started.
ProxyReceive(req) ==
    /\ server.phase = "up"
    /\ rpc \in {"idle", "done"}
    /\ request' = req
    /\ forwards' = 0
    /\ forwarded' = NoForward
    /\ rResponse' = "none"
    /\ IF ProxyQuery(req) # <<>>
       THEN /\ rpc' = "query"
            /\ QueryBegin(ProxyQuery(req)[1], "None", NoOverride)
       ELSE /\ rpc' = "forward"
            /\ UNCHANGED queryVars
    /\ UNCHANGED <<server, coordinators, openai_service>>
    /\ UNCHANGED <<storeVars, addVars, searchVars, coordVars, watchVars,
                   embedVars, docVars, provVars>>
    /\ UNCHANGED <<threadVars, maintVars, toggleVars>>

\* proxy_ollama_api, lines 57-185: the query has ended, or there was none;
\* the body is rewritten when the query returned context, the request is sent
\* on with client.request and the answer, or the error, is handed back.
ProxyForward(upstream) ==
    /\ \/ rpc = "forward"
       \/ rpc = "query" /\ qpc \in {"done", "raised"}
    /\ forwards' = forwards + 1
    /\ forwarded' = [method |-> request.method, path |-> request.path,
                     body |-> IF rpc = "query"
                              THEN EnhancedBody(request, IF qpc = "done" THEN qResult
                                                         ELSE <<>>)
                              ELSE request.body]
    /\ rResponse' = upstream
    /\ rpc' = "done"
    /\ UNCHANGED <<server, coordinators, openai_service, request>>
    /\ UNCHANGED <<storeVars, addVars, searchVars, coordVars, watchVars, queryVars,
                   embedVars, docVars, provVars>>
    /\ UNCHANGED <<threadVars, maintVars, toggleVars>>

OpenAIRequests ==
    { [method |-> "POST", path |-> "/v1/chat/completions",
       body |-> JsonBody("client", ChatData(m))] :
         m \in {<<Message("user", <<"q1">>)>>, <<Message("assistant", <<"a1">>)>>} }

\* api/openai.py, create_chat_completion up to the query, with get_service:
\* without a user message the answer is 400; else the module's coordinator is
\* built when there is none yet, and asked.
OpenAIChatStart(req, override, createOk) ==
    /\ server.phase = "up"
    /\ rpc \in {"idle", "done"}
    /\ request' = req
    /\ forwards' = 0
    /\ forwarded' = NoForward
    /\ LET u == UserMessages(req.body.data.messages)
       IN  IF u = <<>>
           THEN /\ rpc' = "done"
                /\ rResponse' = "400"
                /\ UNCHANGED <<coordinators, openai_service, queryVars>>
           ELSE IF openai_service = 0 /\ ~createOk
           THEN /\ rpc' = "done"
                /\ rResponse' = "500"
                /\ UNCHANGED <<coordinators, openai_service, queryVars>>
           ELSE /\ IF openai_service = 0
                   THEN /\ coordinators' =
                              Append(coordinators, [by |-> "openai.get_service",
                                                    collection |-> CollectionName])
                        /\ openai_service' = Len(coordinators) + 1
                   ELSE UNCHANGED <<coordinators, openai_service>>
                /\ rpc' = "openai"
                /\ rResponse' = "none"
                /\ QueryBegin(u[Len(u)].content, "gpt-4o",
                              IF override THEN "ollama" ELSE "litellm")
    /\ UNCHANGED server
    /\ UNCHANGED <<storeVars, addVars, searchVars, coordVars, watchVars,
                   embedVars, docVars, provVars>>
    /\ UNCHANGED <<threadVars, maintVars, toggleVars>>

\* create_chat_completion, lines 115-154: the answer, or 500 when query raised.
OpenAIChatReturn ==
    /\ rpc = "openai"
    /\ qpc \in {"done", "raised"}
    /\ rResponse' = IF qpc = "done" THEN "200" ELSE "500"
    /\ rpc' = "done"
    /\ UNCHANGED <<server, coordinators, openai_service, request, forwards, forwarded>>
    /\ UNCHANGED <<storeVars, addVars, searchVars, coordVars, watchVars, queryVars,
                   embedVars, docVars, provVars>>
    /\ UNCHANGED <<threadVars, maintVars, toggleVars>>

\* ------------------------------------------------------------ the threads
\* The thread of the observer, on which the handler of the watcher runs, and a
\* thread of the caller (process_vault, a request handler, a second observer).
Threads == {"observer", "caller"}

NoEvent == [kind |-> "none", is_directory |-> FALSE]

IdleThread ==
    [pc |-> "idle", op |-> "none", event |-> NoEvent, path |-> <<>>,
     readOk |-> TRUE, calls |-> 0, handoffs |-> 0, batch |-> <<>>, entities |-> NoEntities,
     result |-> <<>>, trace |-> <<>>, chunks |-> <<>>, must |-> {}, seen |-> {}]

\* MarkdownWatcher.watched_extensions
WatchedExtensions == {".md", ".markdown"}

\* any(event.src_path.endswith(ext) for ext in self.watched_extensions)
EndsWithWatched(path) == path[Len(path)] \in WatchedExtensions

\* The events the observer hands to the handler: files and a directory, made,
\* changed or removed.
Events ==
    { [kind |-> "modified", is_directory |-> FALSE, src_path |-> FileB],
      [kind |-> "created",  is_directory |-> FALSE, src_path |-> FileA],
      [kind |-> "modified", is_directory |-> FALSE, src_path |-> FileM],
      [kind |-> "created",  is_directory |-> FALSE, src_path |-> FileN],
      [kind |-> "modified", is_directory |-> TRUE,  src_path |-> <<"vault", "sub", ".md">>],
      [kind |-> "deleted",  is_directory |-> FALSE, src_path |-> FileB] }

\* Identifiers still to be drawn by the batches that wait for their embedding.
Pending == LET waiting == {t \in Threads : threads[t].pc = "embed"}
           IN  IF waiting = {} THEN 0
               ELSE IF Cardinality(waiting) = 1
               THEN Len(threads[CHOOSE t \in waiting : TRUE].batch)
               ELSE Len(threads["observer"].batch) + Len(threads["caller"].batch)

\* process_file, lines 51-86, on thread t up to the hand-off to the storage:
\* the thread's state when the call was made for the operation op.
ProcessFileEnter(op, event, path, readOk) ==
    LET entered == [IdleThread EXCEPT !.op = op, !.event = event, !.path = path,
                                      !.readOk = readOk, !.calls = 1]
    IN  IF ~EndsWithMd(path) \/ ~Exists(path) \/ ~readOk
        THEN [entered EXCEPT !.pc = "done"]
        ELSE LET chunks == ChunksOfFile(path)
             IN  IF registered = 1 /\ embedding_service = 1 /\ chunks # <<>>
                 THEN [entered EXCEPT !.pc = "embed", !.batch = chunks, !.handoffs = 1]
                 ELSE [entered EXCEPT !.pc = "done", !.chunks = chunks]

\* MarkdownWatcher.on_created and on_modified; the other events have the
\* handler of the base class, which does nothing.
OnEvent(event, readOk) ==
    IF event.kind \in {"created", "modified"} /\ ~event.is_directory
       /\ EndsWithWatched(event.src_path)
    THEN ProcessFileEnter("event", [kind |-> event.kind,
                                    is_directory |-> event.is_directory],
                          event.src_path, readOk)
    ELSE [IdleThread EXCEPT !.pc = "done", !.op = "event", !.path = event.src_path,
                            !.readOk = readOk,
                            !.event = [kind |-> event.kind,
                                       is_directory |-> event.is_directory]]

\* The observer hands an event to the handler.
WatcherEvent(event, readOk) ==
    /\ threads["observer"].pc \in {"idle", "done"}
    /\ LET next == OnEvent(event, readOk)
       IN  /\ nextId + Pending + Len(next.batch) <= MaxIds
           /\ threads' = [threads EXCEPT !["observer"] = next]
    /\ UNCHANGED <<returned, serverVars, maintVars, toggleVars>>
    /\ UNCHANGED <<storeVars, addVars, searchVars, coordVars, watchVars, queryVars,
                   embedVars, docVars, provVars>>

\* process_file called on thread t by process_directory.
ThreadProcessFile(t, path, readOk) ==
    /\ threads[t].pc \in {"idle", "done"}
    /\ LET next == ProcessFileEnter("process_file", NoEvent, path, readOk)
       IN  /\ nextId + Pending + Len(next.batch) <= MaxIds
           /\ threads' = [threads EXCEPT ![t] = next]
    /\ UNCHANGED <<returned, serverVars, maintVars, toggleVars>>
    /\ UNCHANGED <<storeVars, addVars, searchVars, coordVars, watchVars, queryVars,
                   embedVars, docVars, provVars>>

\* add_documents on thread t, lines 124-161: the embeddings, then an
\* identifier and a row per document, all in locals of the call.
ThreadEmbed(t, outcome) ==
    /\ threads[t].pc = "embed"
    /\ LET b     == threads[t].batch
           texts == [i \in 1..Len(b) |-> b[i].page_content]
           e     == EmbedDocuments(texts, outcome)
       IN  threads' = [threads EXCEPT
                          ![t].entities = BuildEntities(b, e.value, nextId),
                          ![t].trace = Append(@, "embed"),
                          ![t].pc = "insert"]
    /\ nextId' = nextId + Len(threads[t].batch)
    /\ UNCHANGED <<collection, unflushed, embedding_service, returned, serverVars, maintVars, toggleVars>>
    /\ UNCHANGED <<addVars, searchVars, coordVars, watchVars, queryVars,
                   embedVars, docVars, provVars>>

\* Mutant of ThreadInsert: the backend writes the rows of a batch one by one
\* and stops at the first one it cannot take.
ThreadInsertRowwise(t, backendOk) ==
    /\ threads[t].pc = "insert"
    /\ LET e == threads[t].entities
       IN  IF InsertAccepts(e) /\ backendOk
           THEN /\ collection' = collection \o RowsOf(e)
                /\ unflushed' = unflushed \cup {e.ids[i] : i \in 1..Len(e.ids)}
                /\ threads' = [threads EXCEPT ![t].trace = Append(@, "insert"),
                                              ![t].pc = "flush"]
           ELSE /\ collection' =
                      IF InsertAccepts(e) /\ Len(e.ids) > 1
                      THEN collection \o SubSeq(RowsOf(e), 1, 1)
                      ELSE collection
                /\ UNCHANGED unflushed
                /\ threads' = [threads EXCEPT ![t].trace = Append(@, "insert"),
                                              ![t].chunks = threads[t].batch,
                                              ![t].pc = "done"]
    /\ UNCHANGED <<nextId, embedding_service, returned, serverVars, maintVars, toggleVars>>
    /\ UNCHANGED <<addVars, searchVars, coordVars, watchVars, queryVars,
                   embedVars, docVars, provVars>>

\* add_documents on thread t, lines 153-164: collection.insert is one request
\* to the backend, which takes the whole batch or raises; when it raises the
\* call returns [] and process_file hands its chunks back.
ThreadInsert(t, backendOk) ==
    /\ threads[t].pc = "insert"
    /\ LET e == threads[t].entities
       IN  IF InsertAccepts(e) /\ backendOk
           THEN /\ collection' = collection \o RowsOf(e)
                /\ unflushed' = unflushed \cup {e.ids[i] : i \in 1..Len(e.ids)}
                /\ threads' = [threads EXCEPT ![t].trace = Append(@, "insert"),
                                              ![t].pc = "flush"]
           ELSE /\ UNCHANGED <<collection, unflushed>>
                /\ threads' = [threads EXCEPT ![t].trace = Append(@, "insert"),
                                              ![t].chunks = threads[t].batch,
                                              ![t].pc = "done"]
    /\ UNCHANGED <<nextId, embedding_service, returned, serverVars, maintVars, toggleVars>>
    /\ UNCHANGED <<addVars, searchVars, coordVars, watchVars, queryVars,
                   embedVars, docVars, provVars>>

\* Mutant of ThreadFlush: the identifiers are returned without the flush.
ThreadFlushSkipped(t, backendOk) ==
    /\ threads[t].pc = "flush"
    /\ threads' = [threads EXCEPT ![t].result = threads[t].entities.ids,
                                  ![t].chunks = threads[t].batch,
                                  ![t].pc = "done"]
    /\ returned' = returned \cup {threads[t].entities.ids[i] :
                                     i \in 1..Len(threads[t].entities.ids)}
    /\ UNCHANGED <<collection, unflushed, nextId, embedding_service, serverVars, maintVars, toggleVars>>
    /\ UNCHANGED <<addVars, searchVars, coordVars, watchVars, queryVars,
                   embedVars, docVars, provVars>>

\* add_documents on thread t, lines 165-173: collection.flush seals every row
\* inserted so far, then the primary keys are returned; when it raises the
\* call returns []. process_file then hands its chunks back.
ThreadFlush(t, backendOk) ==
    /\ threads[t].pc = "flush"
    /\ IF backendOk
       THEN /\ unflushed' = {}
            /\ threads' = [threads EXCEPT ![t].trace = Append(@, "flush"),
                                          ![t].result = threads[t].entities.ids,
                                          ![t].chunks = threads[t].batch,
                                          ![t].pc = "done"]
            /\ returned' = returned \cup {threads[t].entities.ids[i] :
                                             i \in 1..Len(threads[t].entities.ids)}
       ELSE /\ UNCHANGED <<unflushed, returned>>
            /\ threads' = [threads EXCEPT ![t].trace = Append(@, "flush"),
                                          ![t].chunks = threads[t].batch,
                                          ![t].pc = "done"]
    /\ UNCHANGED <<collection, nextId, embedding_service, serverVars, maintVars, toggleVars>>
    /\ UNCHANGED <<addVars, searchVars, coordVars, watchVars, queryVars,
                   embedVars, docVars, provVars>>

\* search_with_embedding is entered on thread t: every add_documents call
\* that has returned identifiers by now has returned before the search.
ThreadSearchStart(t) ==
    /\ threads[t].pc \in {"idle", "done"}
    /\ threads' = [threads EXCEPT ![t] = [IdleThread EXCEPT !.pc = "search",
                                                            !.op = "search",
                                                            !.must = returned]]
    /\ UNCHANGED <<returned, serverVars, maintVars, toggleVars>>
    /\ UNCHANGED <<storeVars, addVars, searchVars, coordVars, watchVars, queryVars,
                   embedVars, docVars, provVars>>

\* The rows a search reads. The collection made by _init_collection has the
\* consistency level Strong; one that was there before is loaded with the
\* level it was made with, under which rows that are not flushed yet may or
\* may not be read.
VisibleIds(seeUnflushed) ==
    {collection[i].id : i \in 1..Len(collection)}
        \ (IF seeUnflushed THEN {} ELSE unflushed)

\* search_with_embedding on thread t, lines 212-218: collection.search reads
\* the collection in one request.
ThreadSearchRead(t, seeUnflushed) ==
    /\ threads[t].pc = "search"
    /\ threads' = [threads EXCEPT ![t].seen = VisibleIds(seeUnflushed),
                                  ![t].pc = "done"]
    /\ UNCHANGED <<returned, serverVars, maintVars, toggleVars>>
    /\ UNCHANGED <<storeVars, addVars, searchVars, coordVars, watchVars, queryVars,
                   embedVars, docVars, provVars>>

\* ----------------------------------------------------------- maintenance
NoMaintenance == [op |-> "none", ids |-> <<>>, outcome |-> "none"]

MaintenanceOutcomes == {"ok", "raise"}

\* delete_documents, lines 237-245: the rows named are deleted and the
\* collection is flushed; an error of the backend is logged and dropped.
DeleteDocuments(ids, outcome) ==
    /\ apc \in {"idle", "done"} /\ ppc \in {"idle", "done"} /\ dpc \in {"idle", "done"}
    /\ ~dropped
    /\ {ids[i] : i \in 1..Len(ids)} \subseteq {collection[i].id : i \in 1..Len(collection)}
    /\ mCall' = [op |-> "delete", ids |-> ids, outcome |-> outcome]
    /\ IF outcome = "ok"
       THEN /\ collection' = SelectSeq(collection,
                                LAMBDA r : r.id \notin {ids[i] : i \in 1..Len(ids)})
            /\ unflushed' = {}
       ELSE UNCHANGED <<collection, unflushed>>
    /\ UNCHANGED <<nextId, embedding_service, dropped>>
    /\ UNCHANGED <<addVars, searchVars, coordVars, watchVars, queryVars,
                   embedVars, docVars, provVars, serverVars, threadVars,
                   toggleVars>>

\* drop_collection, lines 268-278: the collection goes with all its rows; an
\* error of the backend is raised to the caller.
DropCollection(outcome) ==
    /\ apc \in {"idle", "done"} /\ ppc \in {"idle", "done"} /\ dpc \in {"idle", "done"}
    /\ ~dropped
    /\ mCall' = [op |-> "drop", ids |-> <<>>, outcome |-> outcome]
    /\ IF outcome = "ok"
       THEN /\ collection' = <<>>
            /\ unflushed' = {}
            /\ dropped' = TRUE
       ELSE UNCHANGED <<collection, unflushed, dropped>>
    /\ UNCHANGED <<nextId, embedding_service>>
    /\ UNCHANGED <<addVars, searchVars, coordVars, watchVars, queryVars,
                   embedVars, docVars, provVars, serverVars, threadVars,
                   toggleVars>>

\* ------------------------------------- the watcher toggled from two threads
\* The threads that call start_document_watcher and stop_document_watcher on
\* the one coordinator. Neither method takes a lock.
Togglers == {"t1", "t2"}

\* A thread outside both methods; observer is the local start_watcher returned.
IdleToggler == [pc |-> "idle", op |-> "none", observer |-> 0, error |-> "none"]

NoDelivery == [observer |-> 0, calls |-> 0, afterStop |-> FALSE]

\* Whether a start_document_watcher call is between its test and its return.
StartUnderWay ==
    \E t \in Togglers : togglers[t].op = "start" /\ togglers[t].pc \notin {"idle", "done"}

\* start_document_watcher, line 81: the test "self.watcher is None".
StartCheck(t) ==
    /\ togglers[t].pc \in {"idle", "done"}
    /\ togglers' = [togglers EXCEPT ![t] =
                       [IdleToggler EXCEPT !.op = "start",
                                           !.pc = IF watcher = 0 THEN "create" ELSE "done"]]
    /\ stopReturned' = FALSE
    /\ UNCHANGED <<delivery, watchVars, serverVars, threadVars, maintVars>>
    /\ UNCHANGED <<storeVars, addVars, searchVars, coordVars, queryVars,
                   embedVars, docVars, provVars>>

\* start_watcher, lines 35-45, called on the right of the assignment of line
\* 82: an observer is made and started; observer.start() may raise.
StartCreate(t, startOk) ==
    /\ togglers[t].pc = "create"
    /\ Len(observers) < MaxObservers
    /\ IF startOk
       THEN /\ observers' = Append(observers, "running")
            /\ togglers' = [togglers EXCEPT ![t].pc = "assign",
                                            ![t].observer = Len(observers) + 1]
       ELSE /\ observers' = Append(observers, "failed")
            /\ togglers' = [togglers EXCEPT ![t].pc = "done",
                                            ![t].error = "RuntimeError"]
    /\ UNCHANGED <<watcher, wCall, stopReturned, delivery, serverVars, threadVars, maintVars>>
    /\ UNCHANGED <<storeVars, addVars, searchVars, coordVars, queryVars,
                   embedVars, docVars, provVars>>

\* Line 82, the store into self.watcher, and the return.
StartAssign(t) ==
    /\ togglers[t].pc = "assign"
    /\ watcher' = togglers[t].observer
    /\ togglers' = [togglers EXCEPT ![t].pc = "done"]
    /\ UNCHANGED <<observers, wCall, stopReturned, delivery, serverVars, threadVars, maintVars>>
    /\ UNCHANGED <<storeVars, addVars, searchVars, coordVars, queryVars,
                   embedVars, docVars, provVars>>

\* stop_document_watcher, line 87: the test "if self.watcher"; with none held
\* the call returns.
StopCheck(t) ==
    /\ togglers[t].pc \in {"idle", "done"}
    /\ togglers' = [togglers EXCEPT ![t] =
                       [IdleToggler EXCEPT !.op = "stop",
                                           !.pc = IF watcher # 0 THEN "stop" ELSE "done"]]
    /\ stopReturned' = IF watcher # 0 THEN stopReturned ELSE ~StartUnderWay
    /\ UNCHANGED <<delivery, watchVars, serverVars, threadVars, maintVars>>
    /\ UNCHANGED <<storeVars, addVars, searchVars, coordVars, queryVars,
                   embedVars, docVars, provVars>>

\* Line 88, self.watcher.stop(): the attribute is read again; None has no
\* stop(), and the observer read now is the one told to stop.
StopStop(t) ==
    /\ togglers[t].pc = "stop"
    /\ IF watcher = 0
       THEN /\ togglers' = [togglers EXCEPT ![t].pc = "done",
                                            ![t].error = "AttributeError"]
            /\ UNCHANGED observers
       ELSE /\ togglers' = [togglers EXCEPT ![t].pc = "clear", ![t].observer = watcher]
            /\ observers' = [observers EXCEPT ![watcher] = "stopped"]
    /\ UNCHANGED <<watcher, wCall, stopReturned, delivery, serverVars, threadVars, maintVars>>
    /\ UNCHANGED <<storeVars, addVars, searchVars, coordVars, queryVars,
                   embedVars, docVars, provVars>>

\* Line 89, self.watcher = None, and the return.
StopClear(t) ==
    /\ togglers[t].pc = "clear"
    /\ watcher' = 0
    /\ togglers' = [togglers EXCEPT ![t].pc = "done"]
    /\ stopReturned' = ~StartUnderWay
    /\ UNCHANGED <<observers, wCall, delivery, serverVars, threadVars, maintVars>>
    /\ UNCHANGED <<storeVars, addVars, searchVars, coordVars, queryVars,
                   embedVars, docVars, provVars>>

\* A running observer hands an event to its MarkdownWatcher, whether or not
\* the coordinator still refers to it; the handler runs on the observer's
\* thread.
ObserverEvent(i, event) ==
    /\ i \in 1..Len(observers)
    /\ observers[i] = "running"
    /\ threads["observer"].pc \in {"idle", "done"}
    /\ LET next == OnEvent(event, TRUE)
       IN  /\ nextId + Len(next.batch) <= MaxIds
           /\ threads' = [threads EXCEPT !["observer"] = next]
           /\ delivery' = [observer |-> i, calls |-> next.calls, afterStop |-> stopReturned]
    /\ UNCHANGED <<togglers, stopReturned, returned, watchVars, serverVars, maintVars>>
    /\ UNCHANGED <<storeVars, addVars, searchVars, coordVars, queryVars,
                   embedVars, docVars, provVars>>

\* ---------------------------------------------------- the specifications
\* _init_collection loads the collection when it exists: rows of earlier runs.
SeedBatch(n) ==
    [i \in 1..n |-> IF i % 3 = 1 THEN ChunkA ELSE IF i % 3 = 2 THEN ChunkB ELSE ChunkC]

SeedRows(n) ==
    LET batch == SeedBatch(n)
        texts == [i \in 1..n |-> batch[i].page_content]
    IN  RowsOf(BuildEntities(batch, EmbedDocuments(texts, "ok").value, 0))

\* RAGService.__init__ and VectorStorage.__init__: no call made yet.
InitCalls ==
    /\ AddIdle
    /\ SearchIdle
    /\ unflushed = {}
    /\ llm_model = "gpt-4o"
    /\ watcher = 0
    /\ observers = <<>>
    /\ wCall = NoWatcherCall
    /\ qpc = "idle"
    /\ qArgs = NoQueryArgs
    /\ query_embedding = <<>>
    /\ docs = <<>>
    /\ llm = GetLlm(provider, llm_model)
    /\ qCreated = 0
    /\ prompt = <<>>
    /\ qResult = <<>>
    /\ qTrace = <<>>
    /\ qOutcome = NoQueryOutcome
    /\ eCall = NoEmbedCall
    /\ ppc = "idle"
    /\ pArgs = NoFileArgs
    /\ pChunks = <<>>
    /\ pResult = <<>>
    /\ pHandOffs = 0
    /\ pBefore = 0
    /\ dpc = "idle"
    /\ dQueue = <<>>
    /\ dLog = <<>>
    /\ dResult = 0
    /\ instances = <<>>
    /\ vCall = NoProviderCall
    /\ svc = NoService
    /\ server = ServerDown
    /\ coordinators = <<>>
    /\ openai_service = 0
    /\ rpc = "idle"
    /\ request = NoRequest
    /\ forwards = 0
    /\ forwarded = NoForward
    /\ rResponse = "none"
    /\ threads = [t \in Threads |-> IdleThread]
    /\ togglers = [t \in Togglers |-> IdleToggler]
    /\ stopReturned = FALSE
    /\ delivery = NoDelivery
    /\ returned = {}
    /\ mCall = NoMaintenance
    /\ dropped = FALSE

\* The coordinator as RAGService.__init__ leaves it with the default
\* configuration and every client library installed.
InitWired ==
    /\ registered = 1
    /\ sdk = ProviderTypes
    /\ apiKey = TRUE
    /\ config = DefaultConfig
    /\ registry = ProviderTypes

Init ==
    /\ provider \in {ProviderInstance(0, t) : t \in ProviderTypes}
    /\ embedding_service = 1
    /\ \E n \in 0..(TopK + 1) : collection = SeedRows(n) /\ nextId = n
    /\ InitCalls
    /\ InitWired

Next ==
    \/ \E q \in Queries, m \in {"None", "llama3"}, t \in ProviderTypes \cup {NoOverride} :
          QueryStart(q, m, t)
    \/ \E o \in HandleOutcomes : QueryEmbed(o)
    \/ \E ok \in BOOLEAN : QuerySearch(ok)
    \/ \E ok \in BOOLEAN : QueryResolve(ok)
    \/ \E o \in InvokeOutcomes : QueryInvoke(o)
    \/ \E ok \in BOOLEAN : StartDocumentWatcher(ok)
    \/ StopDocumentWatcher

Spec == Init /\ [][Next]_vars

InitStore ==
    /\ provider = ProviderInstance(0, "litellm")
    /\ embedding_service \in {0, 1}
    /\ collection = <<>>
    /\ nextId = 0
    /\ InitCalls
    /\ InitWired

NextStore ==
    \/ \E b \in Batches : AddStart(b)
    \/ \E o \in HandleOutcomes : AddEmbed(o)
    \/ \E ok \in BOOLEAN : AddInsert(ok)
    \/ \E ok \in BOOLEAN : AddFlush(ok)
    \/ \E v \in SearchVectors, k \in {NoneK, 1, TopK + 1}, ok \in BOOLEAN :
          Search(v, k, ok)
    \/ \E t \in TextBatches, o \in HandleOutcomes : EmbedDocumentsCall(t, o)
    \/ \E q \in Queries, o \in HandleOutcomes : EmbedQueryCall(q, o)

SpecStore == InitStore /\ [][NextStore]_vars

\* The document processor, alone or with the services of the coordinator
\* registered, over an empty collection.
InitDocs ==
    /\ provider = ProviderInstance(0, "litellm")
    /\ embedding_service = 1
    /\ collection = <<>>
    /\ nextId = 0
    /\ InitCalls
    /\ registered \in {0, 1}
    /\ sdk = ProviderTypes
    /\ apiKey = TRUE
    /\ config = DefaultConfig
    /\ registry = ProviderTypes

NextDocs ==
    \/ \E f \in Paths, ok \in BOOLEAN : ProcessFileCall(f, ok)
    \/ \E o \in HandleOutcomes : AddEmbed(o)
    \/ \E ok \in BOOLEAN : AddInsert(ok)
    \/ \E ok \in BOOLEAN : AddFlush(ok)
    \/ ProcessFileReturn
    \/ ProcessVaultStart
    \/ ProcessVaultReturn

SpecDocs == InitDocs /\ [][NextDocs]_vars

\* The document processor and the storage with the calls that take rows out:
\* between the calls of the processor rows are deleted and the collection is
\* dropped, after which the backend refuses every insert and flush.
InitMaintenance ==
    /\ provider = ProviderInstance(0, "litellm")
    /\ embedding_service = 1
    /\ collection = <<>>
    /\ nextId = 0
    /\ InitCalls
    /\ InitWired

NextMaintenance ==
    \/ \E i \in 0..(MaxIds - 1), o \in MaintenanceOutcomes : DeleteDocuments(<<i>>, o)
    \/ \E o \in MaintenanceOutcomes : DropCollection(o)
    \/ \E f \in Paths, ok \in BOOLEAN : ProcessFileCall(f, ok)
    \/ \E o \in HandleOutcomes : AddEmbed(o)
    \/ \E ok \in BOOLEAN : (dropped => ~ok) /\ AddInsert(ok)
    \/ \E ok \in BOOLEAN : (dropped => ~ok) /\ AddFlush(ok)
    \/ ProcessFileReturn
    \/ ProcessVaultStart
    \/ ProcessVaultReturn

SpecMaintenance == InitMaintenance /\ [][NextMaintenance]_vars

\* The provider factory and the construction of the coordinator, for every
\* set of installed client libraries and every provider configuration.
InitProviders ==
    /\ provider = ProviderInstance(0, "None")
    /\ embedding_service = 1
    /\ collection = <<>>
    /\ nextId = 0
    /\ InitCalls
    /\ registered = 1
    /\ sdk \in SUBSET ProviderTypes
    /\ registry = {}
    /\ apiKey \in BOOLEAN
    /\ config \in [model_provider      : ProviderTypes,
                    force_litellm_proxy : BOOLEAN,
                    enable_fallback     : BOOLEAN,
                    fallback_providers  : {<<"ollama", "openai">>}]

NextProviders ==
    \/ \E t \in ProviderTypes : RegisterProvider(t)
    \/ \E n \in ProviderNames, o \in ProbeOutcomes : CreateProviderCall(n, o)
    \/ \E i \in 1..MaxProviders, o \in ProbeOutcomes : HealthCheckCall(i, o)
    \/ \E h \in ProviderTypes \cup {NoProvider}, o \in ProbeOutcomes :
          EmbeddingServiceInit(h, o)
    \/ \E h \in ProviderTypes \cup {NoProvider}, o \in ProbeOutcomes :
          RAGServiceInit(h, o)

SpecProviders == InitProviders /\ [][NextProviders]_vars

\* The server of handle_serve: the coordinator is built, the vault indexed,
\* the watcher started when asked for, then requests arrive one at a time at
\* the Ollama proxy and at the OpenAI-compatible endpoint. While the vault is
\* indexed the files can be read and the backend works; the embedding of a
\* batch can fail, which leaves the batch out of the collection.
InitServer ==
    /\ provider = ProviderInstance(0, "litellm")
    /\ embedding_service = 1
    /\ collection = <<>>
    /\ nextId = 0
    /\ InitCalls
    /\ InitWired

NextServer ==
    \/ \E w \in BOOLEAN : HandleServeStart(w)
    \/ server.phase = "index" /\ dpc = "idle" /\ ProcessVaultStart
    \/ server.phase = "index" /\ dpc = "run" /\ \E f \in Paths : ProcessFileCall(f, TRUE)
    \/ \E o \in {"ok", "raise"} : AddEmbed(o)
    \/ AddInsert(TRUE)
    \/ AddFlush(TRUE)
    \/ ProcessFileReturn
    \/ ProcessVaultReturn
    \/ HandleServeIndexed
    \/ server.phase = "watch" /\ wCall.op = "none" /\
          \E ok \in BOOLEAN : StartDocumentWatcher(ok)
    \/ HandleServeListen
    \/ \E r \in Requests : ProxyReceive(r)
    \/ \E r \in OpenAIRequests, o \in BOOLEAN, ok \in BOOLEAN : OpenAIChatStart(r, o, ok)
    \/ \E o \in HandleOutcomes : QueryEmbed(o)
    \/ \E ok \in BOOLEAN : QuerySearch(ok)
    \/ \E ok \in BOOLEAN : QueryResolve(ok)
    \/ \E o \in InvokeOutcomes : QueryInvoke(o)
    \/ \E u \in UpstreamOutcomes : ProxyForward(u)
    \/ OpenAIChatReturn

SpecServer == InitServer /\ [][NextServer]_vars

\* The write path with two threads: the observer's thread handles events
\* while a second thread indexes files and searches.
InitThreads ==
    /\ provider = ProviderInstance(0, "litellm")
    /\ embedding_service = 1
    /\ collection = <<>>
    /\ nextId = 0
    /\ InitCalls
    /\ InitWired

NextThreads ==
    \/ \E e \in Events, ok \in BOOLEAN : WatcherEvent(e, ok)
    \/ \E f \in {FileA, FileB} : ThreadProcessFile("caller", f, TRUE)
    \/ \E t \in Threads, o \in HandleOutcomes : ThreadEmbed(t, o)
    \/ \E t \in Threads, ok \in BOOLEAN : ThreadInsert(t, ok)
    \/ \E t \in Threads, ok \in BOOLEAN : ThreadFlush(t, ok)
    \/ ThreadSearchStart("caller")
    \/ \E s \in BOOLEAN : ThreadSearchRead("caller", s)

SpecThreads == InitThreads /\ [][NextThreads]_vars

\* The watcher started and stopped from two threads while the observers
\* deliver events.
InitToggle ==
    /\ provider = ProviderInstance(0, "litellm")
    /\ embedding_service = 1
    /\ collection = <<>>
    /\ nextId = 0
    /\ InitCalls
    /\ InitWired

ToggleEvents == {e \in Events : e.src_path = FileB}

NextToggle ==
    \/ \E t \in Togglers : StartCheck(t)
    \/ \E t \in Togglers, ok \in BOOLEAN : StartCreate(t, ok)
    \/ \E t \in Togglers : StartAssign(t)
    \/ \E t \in Togglers : StopCheck(t)
    \/ \E t \in Togglers : StopStop(t)
    \/ \E t \in Togglers : StopClear(t)
    \/ \E i \in 1..MaxObservers, e \in ToggleEvents : ObserverEvent(i, e)
    \/ ThreadEmbed("observer", "ok")
    \/ ThreadInsert("observer", TRUE)
    \/ ThreadFlush("observer", TRUE)

SpecToggle == InitToggle /\ [][NextToggle]_vars

\* ------------------------------------------------------------ the claims
QuerySteps == <<"embed", "search", "invoke">>

\* C1: within a query() call the embedding, the retrieval and the completion
\* happen in this order, each after the one before has completed, and a query
\* that returned has invoked the completion handle exactly once.
C1_QueryStepsInOrder ==
    /\ Len(qTrace) <= 3
    /\ \A i \in 1..Len(qTrace) : qTrace[i] = QuerySteps[i]
    /\ qpc = "embed" => qTrace = <<>>
    /\ qpc = "search" => qTrace = <<"embed">> /\ qOutcome.embed # "none"
    /\ qpc \in {"resolve", "invoke"} => qTrace = <<"embed", "search">>
    /\ qpc = "done" => qTrace = QuerySteps
    /\ qpc = "done" => Cardinality({i \in 1..Len(qTrace) : qTrace[i] = "invoke"}) = 1

C1_Witness ==
    /\ qpc = "done"
    /\ qTrace = <<"embed", "search", "invoke">>
    /\ docs # <<>>

\* C2: query() returns no_context = true exactly when retrieval returned no
\* chunk; then the context is empty, the prompt is the bare query text and
\* the model's answer to it is returned; an empty retrieval is no error.
C2_NoContextPath ==
    /\ qpc = "done" =>
          /\ Len(qResult) = 1
          /\ qResult[1].no_context = (docs = <<>>)
          /\ docs = <<>> =>
                /\ qResult[1].context = <<>>
                /\ prompt = <<[tag |-> "text", n |-> 0, body |-> qArgs.query_text]>>
                /\ qResult[1].response =
                      [model  |-> llm.model,
                       prompt |-> <<[tag |-> "text", n |-> 0, body |-> qArgs.query_text]>>]
    /\ qpc = "raised" => qOutcome.create = "raise" \/ qOutcome.invoke = "raise"

C2_Witness ==
    /\ qpc = "done"
    /\ qOutcome.search = "ok"
    /\ docs = <<>>
    /\ qResult[1].no_context

\* C3: when retrieval returns n >= 1 chunks, query() returns no_context =
\* false and as context the chunks in the order the index returned them, at
\* most retrieve_top_k of them; the prompt holds a block "Document i" with
\* chunk i's content for i = 1..n in that order, then the question.
C3_ContextPath ==
    (qpc = "done" /\ docs # <<>>) =>
        LET hits == CollectionSearch(collection, query_embedding, DOMAIN collection, TopK)
            n    == Len(qResult[1].context)
        IN  /\ qResult[1].no_context = FALSE
            /\ n >= 1 /\ n <= TopK
            /\ n = Len(hits)
            /\ \A i \in 1..n :
                  /\ qResult[1].context[i].page_content = hits[i].data
                  /\ qResult[1].context[i].metadata = hits[i].metadata
            /\ Len(prompt) = n + 4
            /\ \A i \in 1..n :
                  prompt[2 + i] = [tag  |-> "Document", n |-> i,
                                   body |-> hits[i].data]
            /\ prompt[n + 3] = [tag |-> "Question:", n |-> 0, body |-> qArgs.query_text]

C3_Witness ==
    /\ qpc = "done"
    /\ Len(collection) > TopK
    /\ Len(qResult[1].context) = TopK
    /\ qResult[1].context[1] # qResult[1].context[2]

\* C4: when embedding the query fails, embed_query yields the empty vector,
\* retrieval is still called and reports no chunk, and the call completes on
\* the no-context path; likewise when the vector search fails. query() never
\* raises because of either failure.
C4_RetrievalFailureDegrades ==
    /\ qOutcome.embed = "raise" => query_embedding = <<>>
    /\ (qOutcome.embed = "raise" /\ qpc \notin {"embed", "search"}) =>
          /\ Len(qTrace) >= 2 /\ qTrace[2] = "search"
          /\ qOutcome.search = "rejected"
          /\ docs = <<>>
    /\ qOutcome.search = "raise" => docs = <<>>
    /\ (qOutcome.embed = "raise" \/ qOutcome.search = "raise") =>
          /\ qpc = "done" =>
                /\ qResult[1].no_context
                /\ qResult[1].context = <<>>
                /\ qResult[1].response =
                      [model  |-> llm.model,
                       prompt |-> <<[tag |-> "text", n |-> 0, body |-> qArgs.query_text]>>]
          /\ qpc = "raised" => qOutcome.create = "raise" \/ qOutcome.invoke = "raise"

C4_Witness ==
    /\ qpc = "done"
    /\ qOutcome.embed = "raise"
    /\ Len(collection) > 0
    /\ qResult[1].no_context

\* C5: when the completion handle's invoke raises, query() raises: nothing is
\* returned, the invoke is not repeated and no further provider is built, on
\* the context path and on the no-context path.
C5_InvokeErrorPropagates ==
    qOutcome.invoke = "raise" =>
        /\ qpc = "raised"
        /\ qResult = <<>>
        /\ qTrace = <<"embed", "search", "invoke">>
        /\ qCreated = IF /\ qArgs.provider_type # "None"
                         /\ qArgs.provider_type # provider.ptype
                      THEN 1 ELSE 0

C5_Witness ==
    /\ qOutcome.invoke = "raise"
    /\ qpc = "raised"
    /\ docs # <<>>

OverrideDiffers ==
    qArgs.provider_type # "None" /\ qArgs.provider_type # provider.ptype

\* C6: a query() call whose provider override differs from the default
\* provider's type constructs exactly one provider, used for that call's
\* completion only; any other call constructs none and uses the
\* coordinator's own provider; no step of query() changes the coordinator's
\* provider, embedding service, default model name or watcher.
C6_OverrideScopedToCall ==
    [][ /\ (qpc' \in {"idle", "embed", "search", "resolve"} => qCreated' = 0)
        /\ (qpc # "resolve" /\ qpc' = "raised" => qCreated' = qCreated)
        /\ (qpc = "resolve" /\ qpc' = "raised" => OverrideDiffers /\ qCreated' = 1)
        /\ (qpc' \in {"invoke", "done"} =>
               /\ qCreated' = IF OverrideDiffers THEN 1 ELSE 0
               /\ llm'.owner = IF OverrideDiffers
                               THEN [id |-> 1, ptype |-> qArgs'.provider_type]
                               ELSE [id |-> 0, ptype |-> provider.ptype])
        /\ (qpc' # qpc =>
               /\ provider' = provider
               /\ provider.id = 0
               /\ embedding_service' = embedding_service
               /\ llm_model' = llm_model
               /\ watcher' = watcher
               /\ observers' = observers) ]_vars

C6_Witness ==
    /\ qpc = "done"
    /\ qArgs.provider_type \notin {"None", provider.ptype}
    /\ qCreated = 1
    /\ llm.owner.id = 1
    /\ provider.id = 0
    /\ watcher # 0

RunningObservers == {i \in 1..Len(observers) : observers[i] = "running"}

\* C7: for calls made one after another, at most one observer is active at
\* any time and it is the one the coordinator holds; a start while a watcher
\* is held starts none, a stop while none is held does nothing, and a stop
\* tells the held observer to stop and leaves the coordinator without watcher.
C7_WatcherToggleIdempotent ==
    /\ Cardinality(RunningObservers) <= 1
    /\ RunningObservers = IF watcher = 0 THEN {} ELSE {watcher}
    /\ (wCall.op = "start" /\ wCall.watcherBefore # 0) =>
          /\ observers = wCall.observersBefore
          /\ watcher = wCall.watcherBefore
    /\ (wCall.op = "stop" /\ wCall.watcherBefore = 0) =>
          /\ observers = wCall.observersBefore
          /\ watcher = 0
    /\ (wCall.op = "stop" /\ wCall.watcherBefore # 0) =>
          /\ observers[wCall.watcherBefore] = "stopped"
          /\ watcher = 0
          /\ Len(observers) = Len(wCall.observersBefore)

C7_Witness ==
    /\ wCall.op = "start"
    /\ wCall.watcherBefore # 0
    /\ Len(observers) = 2
    /\ observers[1] = "stopped"
    /\ observers[2] = "running"

\* C8: for every vector whose length differs from the configured embedding
\* dimension, the empty vector included, search_with_embedding returns the
\* empty list and makes no search call to the backend.
C8_WrongDimensionRejected ==
    (sArgs.called /\ Len(sArgs.embedding) # EmbeddingDim) =>
        /\ sResult = <<>>
        /\ sCalls = 0

C8_Witness ==
    /\ sArgs.called
    /\ Len(sArgs.embedding) = EmbeddingDim + 1
    /\ Len(collection) > 0
    /\ sResult = <<>>
    /\ sCalls = 0

\* C9: add_documents never raises; it returns the empty list for an empty
\* batch, without an embedding service, when the embedding of the batch
\* fails, and when the insert or the flush fails.
C9_AddNeverRaises ==
    /\ apc \in {"idle", "embed", "insert", "flush", "done"}
    /\ apc = "done" =>
          /\ aDocs = <<>> => aResult = <<>>
          /\ embedding_service = 0 => aResult = <<>>
          /\ aOutcome.embed = "raise" => aResult = <<>>
          /\ aOutcome.insert = "raise" => aResult = <<>>
          /\ aOutcome.flush = "raise" => aResult = <<>>

C9_Witness ==
    /\ apc = "done"
    /\ aDocs # <<>>
    /\ aOutcome.embed = "raise"
    /\ aOutcome.insert = "raise"
    /\ aResult = <<>>

\* C10: a non-empty batch with working embedding and backend takes one batch
\* embedding call, one insert of all rows, then one flush; the list returned
\* holds one identifier per chunk, in input order, equal to the identifiers
\* of the rows stored; all identifiers in the collection are pairwise distinct.
C10_AddStoresBatchOnce ==
    /\ (apc = "done" /\ aOutcome.embed = "ok" /\ aOutcome.insert = "ok"
                     /\ aOutcome.flush = "ok") =>
          LET n    == Len(aDocs)
              base == Len(collection) - n
          IN  /\ n >= 1
              /\ aTrace = <<"embed", "insert", "flush">>
              /\ Len(aResult) = n
              /\ base >= 0
              /\ \A i \in 1..n :
                    /\ collection[base + i].id = aResult[i]
                    /\ collection[base + i].data = aDocs[i].page_content
              /\ \A i \in 1..n : \A j \in 1..base : collection[j].id # aResult[i]
    /\ \A i, j \in 1..Len(collection) : i # j => collection[i].id # collection[j].id

C10_Witness ==
    /\ apc = "done"
    /\ Len(aResult) = 2
    /\ Len(collection) = 3
    /\ aTrace = <<"embed", "insert", "flush">>

C12_PersistedMetadataSerializable ==
    /\ \A i \in 1..Len(collection) : \A e \in collection[i].metadata :
          \/ e.t \in {"str", "int", "float", "bool"}
          \/ e.t = "list" /\ e.et \in {"str", "int", "float", "bool"}
    /\ (apc = "done" /\ aResult # <<>>) =>
          \A i \in 1..Len(aDocs) :
             {e.key : e \in collection[Len(collection) - Len(aDocs) + i].metadata}
                = {e.key : e \in aDocs[i].metadata}

\* C13: every vector stored in the collection has the length of the
\* collection's embedding dimension; an add_documents call whose vectors have
\* another length stores no row of its batch, cut or padded, and returns [].
C13_StoredVectorsHaveDimension ==
    /\ \A i \in 1..Len(collection) : Len(collection[i].vector) = EmbeddingDim
    /\ (apc = "done" /\ aOutcome.embed = "baddim") =>
          /\ aResult = <<>>
          /\ aOutcome.insert = "raise"
          /\ \A i \in 1..Len(collection) : \A j \in 1..Len(aEntities.ids) :
                collection[i].id # aEntities.ids[j]

C13_Witness ==
    /\ apc = "done"
    /\ aOutcome.embed = "baddim"
    /\ Len(aDocs) = 2
    /\ Len(collection) = 1
    /\ aResult = <<>>

\* C14: embed_documents of no text returns [] without a call to the
\* provider's handle; embed_documents of texts returns [], never a part of
\* the vectors, when the handle raises, also when add_documents makes the
\* call; embed_query returns the empty vector when the handle raises; with a
\* handle that answers, one vector per text is returned.
C14_EmbeddingNeverRaises ==
    /\ (eCall.op = "embed_documents" /\ eCall.texts = <<>>) =>
          eCall.result = <<>> /\ eCall.handleCalls = 0
    /\ (eCall.op = "embed_documents" /\ eCall.texts # <<>>) =>
          /\ eCall.handleCalls = 1
          /\ eCall.outcome = "raise" => eCall.result = <<>>
          /\ eCall.outcome # "raise" => Len(eCall.result) = Len(eCall.texts)
    /\ (eCall.op = "embed_query" /\ eCall.outcome = "raise") => eCall.result = <<>>
    /\ (apc \in {"insert", "flush", "done"} /\ aOutcome.embed = "raise") =>
          aEntities.vectors = <<>>

C14_Witness ==
    /\ eCall.op = "embed_documents"
    /\ Len(eCall.texts) = 2
    /\ eCall.outcome = "raise"
    /\ eCall.result = <<>>
    /\ eCall.handleCalls = 1

\* C15: process_file never raises: for a path that does not end in .md, a
\* path that does not exist and a file whose read fails it returns the empty
\* list, makes no call to the storage and leaves the collection as it was.
C15_ProcessFileNeverRaises ==
    /\ ppc \in {"idle", "handoff", "done"}
    /\ ppc = "done" =>
          ((\/ pArgs.path[Len(pArgs.path)] # ".md"
            \/ pArgs.path = <<"vault", "gone", ".md">>
            \/ ~pArgs.readOk)
           => /\ pResult = <<>>
              /\ pHandOffs = 0
              /\ Len(collection) = pBefore)
    /\ \A i \in 1..Len(dLog) :
          ~dLog[i].readOk => dLog[i].chunks = <<>> /\ dLog[i].handOffs = 0

C15_Witness ==
    /\ ppc = "done"
    /\ registered = 1
    /\ pArgs.path = <<"vault", "a", ".md">>
    /\ ~pArgs.readOk
    /\ pResult = <<>>
    /\ pHandOffs = 0
    /\ Len(collection) > 0

RECURSIVE LoggedChunkCount(_)
LoggedChunkCount(log) ==
    IF log = <<>> THEN 0 ELSE Len(Head(log).chunks) + LoggedChunkCount(Tail(log))

ChunkIsStored(chunk) ==
    \E j \in 1..Len(collection) : collection[j].data = chunk.page_content

\* C17 as stated: process_vault returns the sum of the chunks process_file
\* produced for the markdown files of the vault, and every one of these
\* chunks has been stored in the collection during the run.
C17_CountsPersistedChunks ==
    (dpc = "done" /\ registered = 1) =>
        /\ dResult = LoggedChunkCount(dLog)
        /\ \A i \in 1..Len(dLog) : \A c \in 1..Len(dLog[i].chunks) :
              ChunkIsStored(dLog[i].chunks[c])

\* C17 amended: process_vault returns the number of chunks produced: the sum,
\* over the .md files found under the vault directory, of the chunks
\* process_file returned (not the number of files); with the services
\* registered each non-empty batch was handed to the storage once, and its
\* chunks are in the collection when that add_documents returned identifiers.
C17_CountsProducedChunks ==
    dpc = "done" =>
        /\ [i \in 1..Len(dLog) |-> dLog[i].path] =
              <<<<"vault", "a", ".md">>, <<"vault", "e", ".md">>,
                <<"vault", "sub", "b", ".md">>>>
        /\ \A i \in 1..Len(dLog) :
              Len(dLog[i].chunks) =
                 IF ~dLog[i].readOk THEN 0
                 ELSE IF dLog[i].path = <<"vault", "a", ".md">> THEN 2
                 ELSE IF dLog[i].path = <<"vault", "e", ".md">> THEN 0 ELSE 1
        /\ dResult = LoggedChunkCount(dLog)
        /\ registered = 1 =>
              \A i \in 1..Len(dLog) :
                 /\ dLog[i].handOffs = IF dLog[i].chunks # <<>> THEN 1 ELSE 0
                 /\ dLog[i].stored =>
                       \A c \in 1..Len(dLog[i].chunks) : ChunkIsStored(dLog[i].chunks[c])

C17_Witness ==
    /\ dpc = "done"
    /\ registered = 1
    /\ dResult = 3
    /\ Len(dLog) = 3
    /\ Len(collection) = 3

\* C18: for a file that starts with a well-formed front-matter block (a.md:
\* title; sub/b.md: title and date), no chunk process_file returns holds a
\* token of the block, and the metadata of every chunk holds every key of the
\* block with the value the block gives it.
C18_FrontMatterStrippedAndCopied ==
    (ppc = "done" /\ pArgs.readOk
       /\ pArgs.path \in {<<"vault", "a", ".md">>, <<"vault", "sub", "b", ".md">>}) =>
        /\ pResult # <<>>
        /\ \A c \in 1..Len(pResult) :
              /\ \A j \in 1..Len(pResult[c].page_content) :
                    pResult[c].page_content[j] \notin
                       {"---", "title:", "date:", "t1", "t2", "2024-01-01"}
              /\ IF pArgs.path = <<"vault", "a", ".md">>
                 THEN [key |-> "title", t |-> "str", et |-> "none", v |-> <<"t1">>]
                         \in pResult[c].metadata
                 ELSE /\ [key |-> "title", t |-> "str", et |-> "none",
                          v |-> <<"t1", "---", "t2">>] \in pResult[c].metadata
                      /\ [key |-> "date", t |-> "date", et |-> "none",
                          v |-> <<"2024-01-01">>] \in pResult[c].metadata

\* C19: for each of the three drivers health_check returns False, and does
\* not raise, when the probe gets no answer or an answer with an error status;
\* a probe that fails during initialize() does not stop the construction: a
\* LiteLLM or Ollama provider whose library is installed is built and left
\* initialized however the probe ends, and a construction fails only for an
\* unknown name, a type that is not registered, a missing library or a
\* missing OpenAI key.
C19_HealthCheckNeverRaises ==
    /\ vCall.op = "health_check" =>
          /\ vCall.result \in {"True", "False"}
          /\ vCall.probe # "ok" => vCall.result = "False"
          /\ vCall.probe = "ok" => vCall.result = "True"
    /\ vCall.op = "create" =>
          /\ vCall.result \in {"ok", "ValueError", "ProviderNotAvailableError"}
          /\ vCall.result # "ok" =>
                \/ vCall.ptype \notin {"litellm", "ollama", "openai"}
                \/ vCall.ptype \notin registry
                \/ vCall.ptype \notin sdk
                \/ vCall.ptype = "openai" /\ ~apiKey
          /\ (vCall.ptype \in {"litellm", "ollama"} /\ vCall.ptype \in sdk
                /\ vCall.ptype \in registry) =>
                /\ vCall.result = "ok"
                /\ instances # <<>>
                /\ instances[Len(instances)] =
                      [ptype |-> vCall.ptype, initialized |-> TRUE, probes |-> 1]
    /\ \A i \in 1..Len(instances) : instances[i].initialized
    /\ svc.state = "raised" => svc.error \in {"ProviderNotAvailableError", "ValueError"}

C19_Witness ==
    /\ vCall.op = "create"
    /\ vCall.ptype = "ollama"
    /\ vCall.probe = "raise"
    /\ vCall.result = "ok"
    /\ instances = <<[ptype |-> "ollama", initialized |-> TRUE, probes |-> 1]>>

PrimaryType == IF config.force_litellm_proxy THEN "litellm" ELSE config.model_provider

Constructible(ptype) ==
    ptype \in registry /\ ptype \in sdk /\ (ptype = "openai" => apiKey)

\* C20: when the fallback chain is enabled and the primary provider cannot be
\* constructed, the coordinator is served by the first provider of
\* fallback_providers, in the configured order, that can be constructed, and
\* the construction of the coordinator has tried the primary and then the
\* fallback providers up to that one.
C20_FallbackChainServes ==
    (svc.state # "none" /\ config.enable_fallback /\ ~Constructible(PrimaryType)) =>
        LET chain == config.fallback_providers
            able  == {i \in 1..Len(chain) : Constructible(chain[i])}
        IN  able # {} =>
               LET first == CHOOSE i \in able : \A j \in able : i <= j
               IN  /\ svc.state = "ready"
                   /\ svc.ptype = chain[first]
                   /\ svc.attempts = <<PrimaryType>> \o SubSeq(chain, 1, first)

C22_ForcedProxyEmbedsThroughLiteLLM ==
    config.force_litellm_proxy =>
        /\ svc.state = "ready" => svc.embedding = "litellm"
        /\ (vCall.op = "embedding_service" /\ vCall.result = "ok") =>
              vCall.ptype = "litellm"

\* C23: each collection is owned by one coordinator: in a running server no
\* second RAGService is built over the collection of the first, the lazily
\* built service of the OpenAI-compatible endpoint included.
C23_OneCoordinatorPerCollection ==
    \A i, j \in 1..Len(coordinators) :
        coordinators[i].collection = coordinators[j].collection => i = j

\* The request just handled came in at the proxy and made a RAG query that
\* returned context.
ProxyGotContext ==
    /\ request \in Requests
    /\ request.method = "POST"
    /\ request.path \in {"chat", "generate"}
    /\ ProxyQuery(request) # <<>>
    /\ qpc = "done"
    /\ qResult[1].context # <<>>

\* C26: every request that arrives at the proxy on /api/{path} is sent on to
\* the model server exactly once, with its method and path. For a POST to
\* chat or generate whose RAG query returned context the body sent on carries
\* that context: for chat one context message, put in front when the request
\* has no system message, else in the place of the first system message, the
\* other messages kept in order; for generate the rewritten prompt. In every
\* other case (no query made, no context found, the query raised) the body
\* sent on is the body received, unchanged.
C26_ProxyForwardsOnce ==
    /\ rpc \in {"query", "forward"} => forwards = 0
    /\ (rpc = "done" /\ request \in Requests) =>
          /\ forwards = 1
          /\ forwarded.method = request.method
          /\ forwarded.path = request.path
          /\ ~ProxyGotContext => forwarded.body = request.body
          /\ (ProxyGotContext /\ request.path = "chat") =>
                LET old == request.body.data.messages
                    new == forwarded.body.data.messages
                    ctx == Message("system", SystemMsg(qResult[1].context).content)
                    at  == IF \E i \in 1..Len(old) : old[i].role = "system"
                           THEN CHOOSE i \in 1..Len(old) :
                                   /\ old[i].role = "system"
                                   /\ \A j \in 1..(i - 1) : old[j].role # "system"
                           ELSE 0
                IN  /\ forwarded.body.kind = "json"
                    /\ at = 0 => new = <<ctx>> \o old
                    /\ at > 0 =>
                          /\ Len(new) = Len(old)
                          /\ new[at] = ctx
                          /\ \A i \in 1..Len(old) : i # at => new[i] = old[i]
                    /\ \A d \in 1..Len(qResult[1].context) :
                          \E k \in 1..Len(ctx.content) :
                              SubSeq(ctx.content, k,
                                     k + Len(qResult[1].context[d].page_content) - 1)
                                 = qResult[1].context[d].page_content
          /\ (ProxyGotContext /\ request.path = "generate") =>
                /\ forwarded.body.kind = "json"
                /\ forwarded.body.data.prompt =
                      NewPrompt(qResult[1].context, request.body.data.prompt)
                /\ forwarded.body.data.prompt # request.body.data.prompt

C26_Witness ==
    /\ rpc = "done"
    /\ request.path = "chat"
    /\ Len(request.body.data.messages) = 4
    /\ ProxyGotContext
    /\ forwards = 1
    /\ forwarded.body # request.body
    /\ forwarded.body.data.messages[2].content # <<"s1">>
    /\ forwarded.body.data.messages[4].content = <<"s2">>

\* C29: whenever add_documents returns an empty list (the embedding, the
\* insert or the flush failed) the collection holds the rows it held before
\* the call: no row of the batch is in it.
C29_EmptyResultStoresNothing ==
    (apc = "done" /\ aDocs # <<>> /\ aResult = <<>>) =>
        \A i \in 1..Len(collection) :
            \A j \in 1..Len(aEntities.ids) : collection[i].id # aEntities.ids[j]

IdsOf(entities) == {entities.ids[i] : i \in 1..Len(entities.ids)}

StoredIds == {collection[i].id : i \in 1..Len(collection)}

\* C24: under every interleaving of process_file calls on the observer's
\* thread with process_file calls and searches on a second thread, an
\* add_documents call that returned identifiers has every chunk of its batch
\* in the collection, each with its own content, metadata and vector under
\* the identifier returned for it; no batch is stored in part; no two rows
\* share an identifier.
C24_ConcurrentBatchesWhole ==
    /\ \A t \in Threads :
          (threads[t].pc = "done" /\ threads[t].result # <<>>) =>
              LET b == threads[t].batch
              IN  /\ Len(threads[t].result) = Len(b)
                  /\ \A i \in 1..Len(b) :
                        \E r \in 1..Len(collection) :
                            /\ collection[r].id = threads[t].result[i]
                            /\ collection[r].data = b[i].page_content
                            /\ collection[r].metadata = FilterMetadata(b[i].metadata)
                            /\ collection[r].vector = HandleVector(b[i].page_content, "ok")
    /\ \A t \in Threads :
          \/ IdsOf(threads[t].entities) \cap StoredIds = {}
          \/ IdsOf(threads[t].entities) \subseteq StoredIds
    /\ \A i, j \in 1..Len(collection) : collection[i].id = collection[j].id => i = j

C24_Witness ==
    /\ threads["observer"].pc = "done"
    /\ threads["caller"].pc = "done"
    /\ threads["observer"].result # <<>>
    /\ Len(threads["caller"].result) = 2
    /\ Len(collection) = 3
    /\ collection[1].id > collection[3].id

\* C25: when add_documents has returned identifiers, its insert and then its
\* flush have completed, in that order, and every search that starts after
\* the return reads a collection that holds the batch. A search that overlaps
\* the call may or may not read the batch.
C25_ReturnedBatchesAreRead ==
    /\ \A t \in Threads :
          (threads[t].pc = "done" /\ threads[t].result # <<>>) =>
              /\ threads[t].trace = <<"embed", "insert", "flush">>
              /\ IdsOf(threads[t].entities) \subseteq StoredIds
              /\ IdsOf(threads[t].entities) \subseteq returned
    /\ returned \cap unflushed = {}
    /\ \A t \in Threads :
          (threads[t].op = "search" /\ threads[t].pc = "done") =>
              threads[t].must \subseteq threads[t].seen

C25_Witness ==
    /\ threads["caller"].op = "search"
    /\ threads["caller"].pc = "done"
    /\ threads["caller"].must # {}
    /\ threads["caller"].must \subseteq threads["caller"].seen
    /\ threads["observer"].pc = "flush"
    /\ ~(IdsOf(threads["observer"].entities) \subseteq threads["caller"].seen)

\* C27: for every create or modify event that is not for a directory and
\* whose path ends in .md or .markdown the watcher calls process_file once
\* and the file, when it is there, readable and not empty, is indexed again:
\* its chunks are handed to the storage. Events for directories and for other
\* extensions trigger nothing.
C27_WatchedEventsReindex ==
    LET o == threads["observer"]
    IN  (o.op = "event" /\ o.pc = "done") =>
            IF o.event.kind \in {"created", "modified"} /\ ~o.event.is_directory
               /\ o.path[Len(o.path)] \in {".md", ".markdown"}
            THEN /\ o.calls = 1
                 /\ (Exists(o.path) /\ o.readOk /\ ContentOf(o.path) # <<>>) =>
                       o.handoffs = 1
            ELSE o.calls = 0 /\ o.handoffs = 0

\* C28: indexing only adds rows. Every step of process_file, process_vault
\* and add_documents leaves the rows stored before in place and in order, and
\* the rows it adds have identifiers no earlier row has, so indexing a file
\* again puts its chunks next to the earlier ones; the number of rows goes
\* down only in a step of delete_documents or drop_collection.
C28_IndexingOnlyAdds ==
    [][ /\ Len(collection') < Len(collection) =>
              /\ mCall' # mCall
              /\ mCall'.op \in {"delete", "drop"}
        /\ mCall' = mCall =>
              /\ Len(collection') >= Len(collection)
              /\ SubSeq(collection', 1, Len(collection)) = collection
              /\ \A i \in (Len(collection) + 1)..Len(collection') :
                    \A j \in 1..Len(collection) : collection'[i].id # collection[j].id
      ]_vars

C28_Witness ==
    /\ ppc = "done"
    /\ pArgs.path = FileB
    /\ Len(collection) = 2
    /\ collection[1].data = collection[2].data
    /\ collection[1].doc_id = collection[2].doc_id
    /\ collection[1].id # collection[2].id
    /\ mCall.op = "none"

\* The calls of start_document_watcher and stop_document_watcher that have
\* all returned.
TogglersReturned == \A t \in Togglers : togglers[t].pc \in {"idle", "done"}

\* C30: with start_document_watcher called from two threads at once, or at
\* once with stop_document_watcher, once the calls have returned at most one
\* observer runs and it is the one the coordinator refers to, and no
\* process_file call is started by an observer after a stop has returned.
C30_ConcurrentToggleKeepsOneObserver ==
    /\ TogglersReturned =>
          /\ Cardinality(RunningObservers) <= 1
          /\ RunningObservers = IF watcher = 0 THEN {} ELSE {watcher}
    /\ delivery.afterStop => delivery.calls = 0

====
